---- MODULE Spec2Model ----
(***************************************************************************)
(* CloverDashboard: the local mirror of the Clover catalog (full sync,     *)
(* sync log), the stock write path (Clover client retry, update-stock      *)
(* route, bulk apply of the CSV modal) and CSV matching.                   *)
(*                                                                         *)
(* The specifications share the variables:                                 *)
(*   Spec      POST /api/sync against the mirror                           *)
(*   SpecApi   POST /api/inventory/update-stock and updateItemStock        *)
(*   SpecBulk  the modal's matching followed by the bulk apply             *)
(*   SpecMatch the modal's matching over tag changes                       *)
(*   SpecRules the vendor rules, one row at a time                         *)
(*   SpecFuzzy fuzzyMatchUPC, one pair of identifiers at a time            *)
(*   SpecTags  GET /api/tags and its cache, requests overlapping           *)
(*   SpecUpload the modal's CSV upload                                     *)
(*   SpecResolve missing-tag detection and the add-tag loop                *)
(*   SpecFind  one matching pass in upc mode over repeated skus and codes  *)
(*   SpecPages fetchAllItems, page by page                                 *)
(*   SpecRace  one full sync and one add-tag refresh, interleaved          *)
(***************************************************************************)
EXTENDS Integers, Sequences, FiniteSets, TLC

VARIABLES
    mirror,         \* InventoryItem table: item id -> row, or NoRow
    syncLogs,       \* SyncLog table: sequence of rows, in creation order
    sync,           \* the POST /api/sync handler in flight: its locals and position
    hist,           \* observations of the sync run (what a test harness would record)
    remoteStock,    \* Clover item_stocks: item id -> quantity
    client,         \* CloverAPI.updateItemStock call in flight
    route,          \* the POST /api/inventory/update-stock handler in flight
    bulk,           \* handleProcessUpdates: its locals and position
    obs,            \* observations of the stock write path
    modal,          \* AddInventoryModal state: selections, pending effects, error
    csvData,        \* parsed CSV rows
    cloverItems,    \* the tag-scoped item list
    matchedItems,   \* Matched entries
    unmatchedItems, \* Unmatched entries
    calc,           \* a function call under evaluation: arguments, progress, result
    tagsApi,        \* GET /api/tags: the module's tagsCache, the requests, the clock
    remoteTags,     \* Clover tag_items: tag id -> ids of the items carrying it
    missingItems,   \* the MissingTag list
    session,        \* the modal's loading flag, isProcessingRef, the find-missing
                    \* timer and passes in flight, the add-tag flow
    refresh         \* the POST /api/inventory/add-tag handler in flight, and
                    \* the catalog Clover holds while it runs

syncVars == <<syncLogs, sync, hist>>
stockVars == <<remoteStock, client, route, bulk, obs>>
modalVars == <<modal, csvData, cloverItems, matchedItems, unmatchedItems>>
auxVars == <<calc, tagsApi, remoteTags, missingItems, session, refresh>>
vars == <<mirror, syncVars, stockVars, modalVars, auxVars>>

(***************************************************************************)
(* Strings the code inspects character by character are sequences of       *)
(* one-character strings; Undefined is the JS undefined of a missing field. *)
(***************************************************************************)
Undefined == <<"<undefined>">>
WhiteSpace == {" ", "\t"}

\* !value, for a string or undefined
Falsy(v) == v = Undefined \/ v = <<>>

\* a || b, for strings
OrElse(a, b) == IF Falsy(a) THEN b ELSE a

RECURSIVE TrimStart(_)
TrimStart(s) ==
    IF s # <<>> /\ Head(s) \in WhiteSpace THEN TrimStart(Tail(s)) ELSE s

RECURSIVE TrimEnd(_)
TrimEnd(s) ==
    IF s # <<>> /\ s[Len(s)] \in WhiteSpace
    THEN TrimEnd(SubSeq(s, 1, Len(s) - 1))
    ELSE s

\* String.prototype.trim
Trim(s) == TrimEnd(TrimStart(s))

\* value?.trim()
OptTrim(v) == IF v = Undefined THEN Undefined ELSE Trim(v)

UpperCase == <<"A", "B", "C", "D", "E", "F", "G", "H", "I", "J", "K", "L", "M",
               "N", "O", "P", "Q", "R", "S", "T", "U", "V", "W", "X", "Y", "Z">>
LowerCase == <<"a", "b", "c", "d", "e", "f", "g", "h", "i", "j", "k", "l", "m",
               "n", "o", "p", "q", "r", "s", "t", "u", "v", "w", "x", "y", "z">>

LowerChar(c) ==
    IF \E i \in 1..Len(UpperCase) : UpperCase[i] = c
    THEN LowerCase[CHOOSE i \in 1..Len(UpperCase) : UpperCase[i] = c]
    ELSE c

\* String.prototype.toLowerCase
ToLowerCase(s) == [i \in 1..Len(s) |-> LowerChar(s[i])]

\* String.prototype.includes
Includes(s, t) ==
    \E i \in 0..(Len(s) - Len(t)) : SubSeq(s, i + 1, i + Len(t)) = t

Digits == <<"0", "1", "2", "3", "4", "5", "6", "7", "8", "9">>
IsDigit(c) == \E i \in 1..Len(Digits) : Digits[i] = c
DigitValue(c) == (CHOOSE i \in 1..Len(Digits) : Digits[i] = c) - 1

RECURSIVE LeadingDigitsValue(_, _)
LeadingDigitsValue(s, acc) ==
    IF s # <<>> /\ IsDigit(Head(s))
    THEN LeadingDigitsValue(Tail(s), acc * 10 + DigitValue(Head(s)))
    ELSE acc

\* parseInt(v, 10): leading white space, an optional sign, then the longest
\* run of digits; {} is NaN, {n} the number n.
ParseInt(v) ==
    LET t == TrimStart(v)
        signed == t # <<>> /\ Head(t) \in {"-", "+"}
        u == IF signed THEN Tail(t) ELSE t
    IN IF v = Undefined \/ u = <<>> \/ ~IsDigit(Head(u)) THEN {}
       ELSE IF signed /\ Head(t) = "-" THEN {0 - LeadingDigitsValue(u, 0)}
       ELSE {LeadingDigitsValue(u, 0)}

\* row[column]: undefined when the row has no such field
Field(row, column) == IF column \in DOMAIN row THEN row[column] ELSE Undefined

\* The first index of seq whose element satisfies P, or 0: Array.prototype.find
FindIndex(seq, P(_)) ==
    IF \E i \in 1..Len(seq) : P(seq[i])
    THEN CHOOSE i \in 1..Len(seq) : P(seq[i]) /\ \A j \in 1..(i - 1) : ~P(seq[j])
    ELSE 0

(***************************************************************************)
(* Vendor rules (vendor-configs.ts)                                        *)
(***************************************************************************)
\* parseInt(...) || fallback
NumberOr(n, fallback) ==
    IF n = {} \/ n = {0} THEN fallback ELSE CHOOSE x \in n : TRUE

CheckMarkHeavy == "U+2714"
CheckMark == "U+2713"

KeheCalculateStock(row) ==
    LET shipQuantity ==
            OrElse(Field(row, "ShipQuantity"),
                OrElse(Field(row, "Ship Quantity"),
                    OrElse(Field(row, "ShipQuantity"), <<"0">>)))
    IN NumberOr(ParseInt(shipQuantity), 0)

\* A rule that multiplies whatever the Broken Case column says.
AlwaysMultiply(row) ==
    LET qty == NumberOr(ParseInt(OrElse(Field(row, "Qty"), <<"0">>)), 0)
        unitSize == NumberOr(ParseInt(OrElse(Field(row, "Unit Size"),
                                 OrElse(Field(row, "UnitSize"), <<"1">>))), 1)
    IN qty * unitSize

CoreMarkCalculateStock(row) ==
    LET qty == NumberOr(ParseInt(OrElse(Field(row, "Qty"),
                            OrElse(Field(row, "Qty"), <<"0">>))), 0)
        brokenCase == OrElse(Field(row, "Broken Case"),
                          OrElse(Field(row, "BrokenCase"),
                              OrElse(Field(row, "Broken Case"), <<>>)))
        unitSize == NumberOr(ParseInt(OrElse(Field(row, "Unit Size"),
                                 OrElse(Field(row, "UnitSize"),
                                     OrElse(Field(row, "Unit Size"), <<"1">>)))), 1)
    IN IF \/ brokenCase = <<CheckMarkHeavy>>
          \/ brokenCase = <<CheckMark>>
          \/ ToLowerCase(brokenCase) = <<"t", "r", "u", "e">>
       THEN qty
       ELSE qty * unitSize

WalmartCalculateStock(row) ==
    LET status == ToLowerCase(OrElse(Field(row, "Status"),
                                  OrElse(Field(row, "Status"), <<>>)))
        quantity == OrElse(Field(row, "Quantity"),
                        OrElse(Field(row, "Quantity"), <<"0">>))
    IN IF status # <<"s", "h", "o", "p", "p", "e", "d">> THEN 0
       ELSE NumberOr(ParseInt(quantity), 0)

\* The default rule reads the column whose name the modal passed along
\* (stockColumnName is "" when none was passed).
DefaultCalculateStock(row, stockColumnName) ==
    IF stockColumnName # "" /\ ~Falsy(Field(row, stockColumnName))
    THEN LET value == ParseInt(Field(row, stockColumnName))
         IN IF value # {} THEN CHOOSE x \in value : TRUE ELSE 0
    ELSE 0

\* getVendorConfig(name).calculateStock(row); an unknown name is the default
CalculateStock(name, row, stockColumnName) ==
    CASE name = "Vendor_Kehe" -> KeheCalculateStock(row)
      [] name = "Vendor_CoreMark" -> CoreMarkCalculateStock(row)
      [] name = "Vendor_Walmart" -> WalmartCalculateStock(row)
      [] OTHER -> DefaultCalculateStock(row, stockColumnName)


(***************************************************************************)
(* One call of a rule                                                      *)
(***************************************************************************)
NoCalc == [op |-> "none"]

RuleNames == {"Vendor_Kehe", "Vendor_CoreMark", "Vendor_Walmart", "default"}

\* What a quantity, unit size, broken case and status field can hold:
\* nothing, the empty string, text, a negative and a positive number, zero.
QuantityTexts ==
    {Undefined, <<>>, <<"a", "b", "c">>, <<"-", "9">>, <<"1", "0">>, <<"0">>}
UnitSizeTexts == {Undefined, <<"6">>, <<"0">>, <<"x">>}
BrokenCaseTexts ==
    {Undefined, <<>>, <<CheckMarkHeavy>>, <<CheckMark>>,
     <<"T", "r", "u", "e">>, <<"n", "o">>}
StatusTexts ==
    {Undefined, <<"S", "h", "o", "p", "p", "e", "d">>,
     <<"p", "e", "n", "d", "i", "n", "g">>}

RuleColumns ==
    {"ShipQuantity", "Qty", "Quantity", "Unit Size", "Broken Case", "Status"}

\* A row whose quantity columns all hold qty.
RuleRow(qty, unitSize, brokenCase, status) ==
    [column \in RuleColumns |->
        CASE column = "Unit Size" -> unitSize
          [] column = "Broken Case" -> brokenCase
          [] column = "Status" -> status
          [] OTHER -> qty]

RuleRows ==
    {RuleRow(qty, unitSize, brokenCase, status) :
        qty \in QuantityTexts, unitSize \in UnitSizeTexts,
        brokenCase \in BrokenCaseTexts, status \in StatusTexts}

\* vendorConfig.calculateStock(rowForCalculation) is about to be called.
CalculateStockArgs(name, row, stockColumnName) ==
    [op |-> "calculateStock", name |-> name, row |-> row,
     stockColumnName |-> stockColumnName, done |-> FALSE, result |-> 0]

\* The call returns.
CalculateStockCall ==
    /\ calc.op = "calculateStock"
    /\ ~calc.done
    /\ calc' = [calc EXCEPT !.done = TRUE,
                    !.result = CalculateStock(calc.name, calc.row,
                                              calc.stockColumnName)]
    /\ UNCHANGED <<mirror, syncLogs, sync, hist>>
    /\ UNCHANGED <<remoteStock, client, route, bulk, obs>>
    /\ UNCHANGED <<modal, csvData, cloverItems, matchedItems, unmatchedItems>>
    /\ UNCHANGED <<refresh, tagsApi, remoteTags, missingItems, session>>

(***************************************************************************)
(* Values                                                                  *)
(***************************************************************************)
ItemIds == {"A", "B", "C"}
Skus == {<<"1", "1", "1">>}
NoSku == Undefined       \* the Clover payload carries no sku
Null == "NULL"           \* SQL NULL / JS null
NullSku == <<"<null>">>  \* SQL NULL in the sku column
NoRow == [absent |-> TRUE]

\* How many sync requests one behaviour serves.
MaxSyncs == 2

\* The stock fields Clover reports for an item: the root stockCount and the
\* expanded itemStock.stockCount, each a set holding the value when present.
RemoteStockOf(id) ==
    CASE id = "A" -> [stockCount |-> {4}, itemStock |-> {0}]
      [] id = "B" -> [stockCount |-> {5}, itemStock |-> {}]
      [] OTHER    -> [stockCount |-> {},  itemStock |-> {}]

\* The tags Clover expands on an item of the full catalog.
RemoteTagsOf(id) == IF id = "A" THEN {"T1"} ELSE {}

\* A Clover item as fetchAllItems returns it (the fields the sync reads).
CloverItem(id, sku) ==
    [id |-> id, name |-> <<id>>, sku |-> sku, code |-> Undefined,
     tags |-> RemoteTagsOf(id),
     stockCount |-> RemoteStockOf(id).stockCount,
     itemStock |-> RemoteStockOf(id).itemStock]

RECURSIVE Perms(_)
\* Every ordering of the ids in S.
Perms(S) ==
    IF S = {} THEN {<<>>}
    ELSE UNION {{<<x>> \o p : p \in Perms(S \ {x})} : x \in S}

\* The remote catalogs a fetch can return: any ids, in any order, each with
\* any sku (Clover does not keep skus unique).
RemoteCatalogs ==
    UNION {{[i \in 1..Len(p) |-> CloverItem(p[i], f[p[i]])] :
                f \in [ItemIds -> Skus \cup {NoSku}]} :
           p \in UNION {Perms(S) : S \in SUBSET ItemIds}}

RemoteIds(items) == {items[i].id : i \in 1..Len(items)}

(***************************************************************************)
(* The mirror (prisma.inventoryItem)                                       *)
(***************************************************************************)
MirrorIds == {id \in ItemIds : mirror[id] # NoRow}

\* prisma.inventoryItem.findUnique({ where: { sku } }): the id of the row, in a set.
FindBySku(m, sku) == {id \in ItemIds : m[id] # NoRow /\ m[id].sku = sku}

\* A rule that prefers the root counter.
RootStockFirst(item) ==
    IF item.stockCount # {} THEN CHOOSE n \in item.stockCount : TRUE
    ELSE IF item.itemStock # {} THEN CHOOSE n \in item.itemStock : TRUE
    ELSE 0

\* item.itemStock?.stockCount ?? item.stockCount ?? 0
ActualStockCount(item) ==
    IF item.itemStock # {} THEN CHOOSE n \in item.itemStock : TRUE
    ELSE IF item.stockCount # {} THEN CHOOSE n \in item.stockCount : TRUE
    ELSE 0

\* sku: item.sku || null
SkuOrNull(sku) == IF Falsy(sku) THEN NullSku ELSE sku

\* item.tags?.elements?.map(tag => tag.id) || []
TagIdsOf(item) == IF "tags" \in DOMAIN item THEN item.tags ELSE {}

\* The row the upsert writes (update and create carry the same data).
UpsertRow(item) ==
    [name |-> item.name, sku |-> SkuOrNull(item.sku),
     code |-> SkuOrNull(item.code), stockCount |-> ActualStockCount(item),
     tags |-> TagIdsOf(item)]

\* InventoryItem_sku_key: would writing row under id break the unique index?
SkuKeyViolated(m, id, row) ==
    /\ row.sku # NullSku
    /\ \E other \in ItemIds \ {id} : m[other] # NoRow /\ m[other].sku = row.sku

(***************************************************************************)
(* POST /api/sync                                                          *)
(***************************************************************************)
IdleSync ==
    [pc |-> "idle", logId |-> 0, items |-> <<>>, idx |-> 0,
     existingBySku |-> {}, allDbIds |-> {}, itemsFetched |-> 0,
     itemsDeleted |-> 0, error |-> Null, response |-> Null]

\* Messages of the exceptions the steps can raise.
FetchError == "Clover API error: 500"
DbError == "Invalid prisma invocation"

\* Nothing observed yet.  order lists the ids in the order their upserts were
\* written; swept and deleted record the deleteMany of the reconciliation.
NoHist == [before |-> Null, upserted |-> {}, order |-> <<>>,
           swept |-> FALSE, deleted |-> {}]

\* lines 10-15: prisma.syncLog.create
SyncStart ==
    /\ sync.pc = "idle"
    /\ Len(syncLogs) < MaxSyncs
    /\ syncLogs' = Append(syncLogs,
          [status |-> "in_progress", endTime |-> Null, itemsFetched |-> 0,
           error |-> Null, writes |-> 0])
    /\ sync' = [IdleSync EXCEPT !.pc = "fetch", !.logId = Len(syncLogs) + 1]
    /\ hist' = [NoHist EXCEPT !.before = mirror]
    /\ UNCHANGED mirror
    /\ UNCHANGED <<stockVars, modalVars, auxVars>>

\* A loop that leaves for the reconciliation pass after its first item.
LeaveAfterFirstItem(items, idx) == "findMany"

\* After item idx: the next item, or the reconciliation pass.
NextItemPc(items, idx) == IF idx < Len(items) THEN "findBySku" ELSE "findMany"

\* lines 26-30: fetchAllItems returns one of catalogs
SyncFetchFrom(catalogs) ==
    /\ sync.pc = "fetch"
    /\ \E items \in catalogs :
          sync' = [sync EXCEPT !.items = items, !.itemsFetched = Len(items),
                               !.idx = IF Len(items) > 0 THEN 1 ELSE 0,
                               !.pc = NextItemPc(items, 0)]
    /\ UNCHANGED <<mirror, syncLogs, hist>>
    /\ UNCHANGED <<stockVars, modalVars, auxVars>>

\* lines 26-30: fetchAllItems returns whatever Clover holds
SyncFetch == SyncFetchFrom(RemoteCatalogs)

\* lines 45-55: findUnique by id (result unused), findUnique by sku
SyncFindBySku ==
    /\ sync.pc = "findBySku"
    /\ LET item == sync.items[sync.idx]
           found == IF ~Falsy(item.sku) THEN FindBySku(mirror, item.sku) ELSE {}
           stale == {id \in found : id # item.id}
       IN sync' = [sync EXCEPT !.existingBySku = stale,
                               !.pc = IF stale # {} THEN "deleteStale" ELSE "upsert"]
    /\ UNCHANGED <<mirror, syncLogs, hist>>
    /\ UNCHANGED <<stockVars, modalVars, auxVars>>

\* The message prisma.inventoryItem.delete throws when no row has the id.
NotFoundError == "Record to delete does not exist"

\* lines 56-58: delete the row that owns the sku, by its id; delete throws
\* when the row is no longer there
SyncDeleteStale ==
    /\ sync.pc = "deleteStale"
    /\ IF \E id \in sync.existingBySku : mirror[id] = NoRow
       THEN /\ sync' = [sync EXCEPT !.pc = "catch", !.error = NotFoundError]
            /\ UNCHANGED mirror
       ELSE /\ mirror' = [id \in ItemIds |->
                    IF id \in sync.existingBySku THEN NoRow ELSE mirror[id]]
            /\ sync' = [sync EXCEPT !.existingBySku = {}, !.pc = "upsert"]
    /\ UNCHANGED <<syncLogs, hist>>
    /\ UNCHANGED <<stockVars, modalVars, auxVars>>

\* lines 63-99: upsert keyed by id; the unique index on sku may reject it
SyncUpsert ==
    /\ sync.pc = "upsert"
    /\ LET item == sync.items[sync.idx]
           row == UpsertRow(item)
       IN IF SkuKeyViolated(mirror, item.id, row)
          THEN /\ sync' = [sync EXCEPT !.pc = "catch", !.error = DbError]
               /\ UNCHANGED <<mirror, hist>>
          ELSE /\ mirror' = [mirror EXCEPT ![item.id] = row]
               /\ sync' = [sync EXCEPT !.idx = sync.idx + 1,
                                       !.pc = NextItemPc(sync.items, sync.idx)]
               /\ hist' = [hist EXCEPT !.upserted = hist.upserted \cup {item.id},
                                       !.order = Append(hist.order, item.id)]
    /\ UNCHANGED syncLogs
    /\ UNCHANGED <<stockVars, modalVars, auxVars>>

\* lines 103-107: findMany, then the ids not in the Clover id set
SyncFindMany ==
    /\ sync.pc = "findMany"
    /\ sync' = [sync EXCEPT !.allDbIds = MirrorIds, !.pc = "deleteMany"]
    /\ UNCHANGED <<mirror, syncLogs, hist>>
    /\ UNCHANGED <<stockVars, modalVars, auxVars>>

\* lines 107-120: deleteMany of the ids absent from Clover
SyncDeleteMany ==
    /\ sync.pc = "deleteMany"
    /\ LET itemsToDelete == sync.allDbIds \ RemoteIds(sync.items)
       IN /\ mirror' = [id \in ItemIds |->
                          IF id \in itemsToDelete THEN NoRow ELSE mirror[id]]
          /\ sync' = [sync EXCEPT !.itemsDeleted = Cardinality(itemsToDelete),
                                  !.pc = "logSuccess"]
          /\ hist' = [hist EXCEPT !.swept = TRUE, !.deleted = itemsToDelete]
    /\ UNCHANGED syncLogs
    /\ UNCHANGED <<stockVars, modalVars, auxVars>>

\* An update that writes the status but no end time.
UpdateSyncLogNoEndTime(logs, id, status, itemsFetched, error) ==
    [logs EXCEPT ![id] = [status |-> status, endTime |-> Null,
                          itemsFetched |-> itemsFetched, error |-> error,
                          writes |-> logs[id].writes + 1]]

\* prisma.syncLog.update({ where: { id }, data })
UpdateSyncLog(logs, id, status, itemsFetched, error) ==
    [logs EXCEPT ![id] = [status |-> status, endTime |-> "set",
                          itemsFetched |-> itemsFetched, error |-> error,
                          writes |-> logs[id].writes + 1]]

\* lines 123-138: mark the run success and answer
SyncLogSuccess ==
    /\ sync.pc = "logSuccess"
    /\ syncLogs' = UpdateSyncLog(syncLogs, sync.logId, "success",
                                 sync.itemsFetched, syncLogs[sync.logId].error)
    /\ sync' = [sync EXCEPT !.pc = "respond",
                  !.response = [status |-> 200, success |-> TRUE,
                                message |-> "Successfully synced"]]
    /\ UNCHANGED <<mirror, hist>>
    /\ UNCHANGED <<stockVars, modalVars, auxVars>>

\* A step of the try block raises: the remote fetch or a mirror operation.
SyncRaise ==
    /\ sync.pc \in {"fetch", "findBySku", "deleteStale", "upsert",
                    "findMany", "deleteMany"}
    /\ sync' = [sync EXCEPT !.pc = "catch",
                  !.error = IF sync.pc = "fetch" THEN FetchError ELSE DbError]
    /\ UNCHANGED <<mirror, syncLogs, hist>>
    /\ UNCHANGED <<stockVars, modalVars, auxVars>>

\* lines 139-163: mark the run error, rethrow, answer 500 with the message
SyncCatch ==
    /\ sync.pc = "catch"
    /\ syncLogs' = UpdateSyncLog(syncLogs, sync.logId, "error",
                                 sync.itemsFetched, sync.error)
    /\ sync' = [sync EXCEPT !.pc = "respond",
                  !.response = [status |-> 500, success |-> FALSE,
                                message |-> sync.error]]
    /\ UNCHANGED <<mirror, hist>>
    /\ UNCHANGED <<stockVars, modalVars, auxVars>>

\* The response is sent; the handler is free for the next request.
SyncReturn ==
    /\ sync.pc = "respond"
    /\ sync' = IdleSync
    /\ hist' = NoHist
    /\ UNCHANGED <<mirror, syncLogs>>
    /\ UNCHANGED <<stockVars, modalVars, auxVars>>

(***************************************************************************)
(* normalizeUPC and fuzzyMatchUPC (utils.ts)                               *)
(***************************************************************************)
\* The longest identifier given to fuzzyMatchUPC.
MaxUpcLen == 3

IsAlphaNumeric(c) ==
    \/ IsDigit(c)
    \/ \E i \in 1..Len(LowerCase) : LowerCase[i] = c \/ UpperCase[i] = c

\* lines 31-34: trim, drop what is not a letter or a digit, lower-case;
\* null, undefined and "" give ""
NormalizeUPC(upc) ==
    IF upc = NullSku \/ Falsy(upc) THEN <<>>
    ELSE ToLowerCase(SelectSeq(Trim(upc), IsAlphaNumeric))

RECURSIVE StripZeros(_)
StripZeros(str) ==
    IF str # <<>> /\ Head(str) = "0" THEN StripZeros(Tail(str)) ELSE str

\* line 54: str.replace(/^0+/, "") || "0"
RemoveLeadingZeros(str) == OrElse(StripZeros(str), <<"0">>)

\* Containment looked for in one direction only.
FirstIncludes(clean1, clean2) == Includes(clean1, clean2)

\* line 61: clean1.includes(clean2) || clean2.includes(clean1)
EitherIncludes(clean1, clean2) ==
    Includes(clean1, clean2) \/ Includes(clean2, clean1)

\* Math.abs(a - b)
AbsDiff(a, b) == IF a >= b THEN a - b ELSE b - a

\* lines 40-68
FuzzyMatchUPC(upc1, upc2) ==
    LET normalized1 == NormalizeUPC(upc1)
        normalized2 == NormalizeUPC(upc2)
        clean1 == RemoveLeadingZeros(normalized1)
        clean2 == RemoveLeadingZeros(normalized2)
    IN IF normalized1 = <<>> \/ normalized2 = <<>> THEN FALSE
       ELSE IF normalized1 = normalized2 THEN TRUE
       ELSE IF clean1 = clean2 THEN TRUE
       ELSE IF EitherIncludes(clean1, clean2)
       THEN AbsDiff(Len(clean1), Len(clean2)) <= 2
       ELSE FALSE

\* The characters of the identifiers given to fuzzyMatchUPC.
UpcAlphabet == {"0", "1", "-", "a", "A"}

\* The identifiers of at most n characters, null and undefined.
UpcTexts(n) ==
    UNION {[1..k -> UpcAlphabet] : k \in 0..n} \cup {NullSku, Undefined}

FuzzyMatchArgs(a, b) ==
    [op |-> "fuzzyMatchUPC", a |-> a, b |-> b, done |-> FALSE,
     result |-> FALSE]

\* The call returns.
FuzzyMatchCall ==
    /\ calc.op = "fuzzyMatchUPC"
    /\ ~calc.done
    /\ calc' = [calc EXCEPT !.done = TRUE,
                            !.result = FuzzyMatchUPC(calc.a, calc.b)]
    /\ UNCHANGED <<mirror, syncLogs, sync, hist>>
    /\ UNCHANGED <<remoteStock, client, route, bulk, obs>>
    /\ UNCHANGED <<modal, csvData, cloverItems, matchedItems, unmatchedItems>>
    /\ UNCHANGED <<refresh, tagsApi, remoteTags, missingItems, session>>

(***************************************************************************)
(* CloverAPI.updateItemStock (clover.ts)                                   *)
(***************************************************************************)
\* The retries parameter's default.
DefaultRetries == 3
\* The unit of the wait before a retry, in ms.
BackoffUnitMs == 2000

\* What a POST to item_stocks can come back with; 0 is fetch itself failing.
RemoteStatuses == {200, 429, 400, 500, 503, 0}

\* response.ok
ResponseOk(status) == status >= 200 /\ status <= 299

StatusToken(status) ==
    CASE status = 429 -> "429"
      [] status = 503 -> "503"
      [] status = 400 -> "400"
      [] status = 500 -> "500"
      [] OTHER -> "?"

StatusText(status) ==
    CASE status = 429 -> "Too Many Requests"
      [] status = 503 -> "Service Unavailable"
      [] status = 400 -> "Bad Request"
      [] status = 500 -> "Internal Server Error"
      [] OTHER -> "?"

\* One message for every failure.
GenericErrorMessage(status) ==
    <<"Clover API error:", StatusToken(status), StatusText(status), "-",
      "<errorText>">>

\* lines 532-548: the message of the error thrown for a response that is
\* not ok and not retried; a message is a sequence of its parts
ClientErrorMessage(status) ==
    IF status = 0 THEN <<"fetch failed">>
    ELSE IF status = 400
    THEN <<"Bad Request: Invalid stock count or item ID.", "<errorText>">>
    ELSE IF status = 500
    THEN <<"Clover API server error. Please try again later.", "<errorText>">>
    ELSE <<"Clover API error:", StatusToken(status), StatusText(status),
           "-", "<errorText>">>

\* A wait that does not grow.
FlatWait(retries) == BackoffUnitMs

\* lines 526: the wait before the retry, with `retries` retries left
WaitTime(retries) == (4 - retries) * BackoffUnitMs

IdleClient ==
    [pc |-> "idle", itemId |-> "", stockCount |-> 0, retries |-> 0,
     error |-> <<>>]

\* updateItemStock(itemId, stockCount): the first request is sent
UpdateItemStockCall(itemId, stockCount) ==
    [pc |-> "request", itemId |-> itemId, stockCount |-> stockCount,
     retries |-> DefaultRetries, error |-> <<>>]

\* lines 511-552: the response to the request in flight arrives
ClientResponse ==
    /\ client.pc = "request"
    /\ \E status \in RemoteStatuses :
          /\ obs' = [obs EXCEPT !.statuses = Append(@, status),
                        !.waits = IF status = 429 /\ client.retries > 0
                                  THEN Append(@, WaitTime(client.retries))
                                  ELSE @]
          /\ IF ResponseOk(status)
             THEN /\ remoteStock' =
                        [remoteStock EXCEPT ![client.itemId] = client.stockCount]
                  /\ client' = [client EXCEPT !.pc = "ok"]
             ELSE /\ UNCHANGED remoteStock
                  /\ IF status = 429 /\ client.retries > 0
                     THEN client' = [client EXCEPT !.pc = "backoff"]
                     ELSE client' = [client EXCEPT !.pc = "error",
                                        !.error = ClientErrorMessage(status)]
    /\ UNCHANGED <<route, bulk>>
    /\ UNCHANGED <<mirror, syncVars, modalVars, auxVars>>

\* lines 528-529: the wait is over; the call is made again with one retry less
ClientRetry ==
    /\ client.pc = "backoff"
    /\ client' = [client EXCEPT !.pc = "request", !.retries = client.retries - 1]
    /\ UNCHANGED <<remoteStock, route, bulk, obs>>
    /\ UNCHANGED <<mirror, syncVars, modalVars, auxVars>>

(***************************************************************************)
(* POST /api/inventory/update-stock (update-stock/route.ts)                *)
(***************************************************************************)
\* JSON values of a request body
JUndefined == [t |-> "undefined"]
JNull == [t |-> "null"]
JString(s) == [t |-> "string", s |-> s]
JNumber(n) == [t |-> "number", v |-> n]

\* !value
JFalsy(value) ==
    \/ value.t \in {"undefined", "null"}
    \/ (value.t = "string" /\ value.s = "")
    \/ (value.t = "number" /\ value.v = 0)

\* A body that is a JSON object, and one that request.json() or the
\* destructuring rejects.
ObjectBody(itemId, stockCount) ==
    [object |-> TRUE, itemId |-> itemId, stockCount |-> stockCount]
MalformedBody ==
    [object |-> FALSE, itemId |-> JUndefined, stockCount |-> JUndefined]

Response(status, message, error) ==
    [status |-> status, ok |-> ResponseOk(status), message |-> message,
     error |-> error]

NoResponse == Response(0, <<>>, <<>>)

IdleRoute ==
    [pc |-> "idle", body |-> MalformedBody, response |-> NoResponse,
     caller |-> ""]

\* A request reaches the handler.
RouteRequest(body, caller) ==
    [pc |-> "validate", body |-> body, response |-> NoResponse,
     caller |-> caller]

\* What is observed of one request: reset when it is sent.
ObserveRequest(o) ==
    [o EXCEPT !.statuses = <<>>, !.waits = <<>>,
              !.remoteBefore = remoteStock, !.mirrorBefore = mirror]

\* A validation that does not look at the sign of stockCount.
UnsignedValidationMessage(body) ==
    IF JFalsy(body.itemId) \/ body.stockCount.t = "undefined"
    THEN <<"itemId and stockCount are required">>
    ELSE IF body.stockCount.t # "number"
    THEN <<"stockCount must be a non-negative number">>
    ELSE <<>>

\* lines 12-30: the message of the 400 response, or <<>> for a valid body
ValidationMessage(body) ==
    IF JFalsy(body.itemId) \/ body.stockCount.t = "undefined"
    THEN <<"itemId and stockCount are required">>
    ELSE IF body.stockCount.t # "number" \/ body.stockCount.v < 0
    THEN <<"stockCount must be a non-negative number">>
    ELSE <<>>

\* lines 9-35: parse and validate, then call updateItemStock
RouteValidate ==
    /\ route.pc = "validate"
    /\ LET body == route.body IN
       IF ~body.object
       THEN /\ route' = [route EXCEPT !.pc = "respond",
                  !.response = Response(500, <<"Failed to update stock">>,
                                        <<"Unexpected end of JSON input">>)]
            /\ UNCHANGED client
       ELSE IF ValidationMessage(body) # <<>>
       THEN /\ route' = [route EXCEPT !.pc = "respond",
                  !.response = Response(400, ValidationMessage(body), <<>>)]
            /\ UNCHANGED client
       ELSE /\ route' = [route EXCEPT !.pc = "clover"]
            /\ client' = UpdateItemStockCall(body.itemId.s, body.stockCount.v)
    /\ UNCHANGED <<remoteStock, bulk, obs>>
    /\ UNCHANGED <<mirror, syncVars, modalVars, auxVars>>

\* lines 38-48: updateItemStock returned; prisma.inventoryItem.update, which
\* throws when the mirror has no row with this id
RouteMirrorUpdate ==
    /\ route.pc = "clover"
    /\ client.pc = "ok"
    /\ LET itemId == route.body.itemId.s IN
       IF mirror[itemId] = NoRow
       THEN /\ route' = [route EXCEPT !.pc = "respond",
                  !.response = Response(500, <<"Failed to update stock">>,
                                        <<"Record to update not found.">>)]
            /\ UNCHANGED mirror
       ELSE /\ mirror' = [mirror EXCEPT
                            ![itemId].stockCount = route.body.stockCount.v]
            /\ route' = [route EXCEPT !.pc = "respond",
                  !.response = Response(200, <<"Stock updated successfully">>,
                                        <<>>)]
    /\ client' = IdleClient
    /\ UNCHANGED <<remoteStock, bulk, obs>>
    /\ UNCHANGED <<syncVars, modalVars, auxVars>>

\* lines 49-59: updateItemStock threw
RouteCatch ==
    /\ route.pc = "clover"
    /\ client.pc = "error"
    /\ route' = [route EXCEPT !.pc = "respond",
          !.response = Response(500, <<"Failed to update stock">>, client.error)]
    /\ client' = IdleClient
    /\ UNCHANGED <<remoteStock, bulk, obs>>
    /\ UNCHANGED <<mirror, syncVars, modalVars, auxVars>>

(***************************************************************************)
(* Inputs of the stock write path and of the modal                         *)
(***************************************************************************)
\* How many requests other callers post to update-stock in one behaviour.
MaxApiCalls == 2
\* The longest CSV of the bulk apply, of the matching, the longest
\* tag-scoped list, and how often the operator changes the tag.
MaxBulkRows == 2
MaxCsvRows == 3
MaxTagItems == 2
MaxTagChanges == 1

TagIds == {"T1", "T2"}

\* Clover's quantity of each item: the stock the tag fetch reports.
InitialRemoteStock ==
    [id \in ItemIds |-> ActualStockCount(CloverItem(id, NoSku))]

\* A tag-scoped item as items-by-tag returns it.
TagItem(id, name, sku, code) ==
    [id |-> id, name |-> name, sku |-> sku, code |-> code,
     stockCount |-> RemoteStockOf(id).stockCount,
     itemStock |-> RemoteStockOf(id).itemStock]

ItemA == TagItem("A", <<"W", "i", "d", "g", "e", "t">>, <<"1", "1", "1">>,
                 Undefined)
ItemB == TagItem("B", <<"G", "a", "d", "g", "e", "t">>,
                 <<" ", "2", "2", "2", " ">>, <<"1", "1", "1">>)
ItemC == TagItem("C", <<"W", "i", "d">>, Undefined, <<"3", "3", "3">>)

\* A fourth item of the tag: its sku, once trimmed, is the sku of item A
\* and its code is the code of item C.
ItemD == TagItem("D", <<"D", "u", "p">>, <<" ", "1", "1", "1">>,
                 <<"3", "3", "3">>)

\* The sequences without repetition of at most n elements of S.
ListsOf(S, n) ==
    UNION {Perms(T) : T \in {U \in SUBSET S : Cardinality(U) <= n}}

\* The sequences of at most n elements of S.
SeqsUpTo(S, n) == UNION {[1..k -> S] : k \in 0..n}

TagItemLists == ListsOf({ItemA, ItemB, ItemC}, MaxTagItems)

CsvRow(upc, name, qty) == [UPC |-> upc, Name |-> name, Qty |-> qty]

\* Rows of the matching: a padded identifier, an unknown one, an empty and
\* a blank one, and a short row without the UPC field.
MatchCsvRows ==
    { CsvRow(<<" ", "1", "1", "1", " ">>, <<"w", "i", "d", "g", "e", "t">>,
             <<"2">>),
      CsvRow(<<"9", "9", "9">>, <<"n", "o", "n", "e">>, <<"3">>),
      CsvRow(<<>>, <<" ", " ">>, <<"2">>),
      [Name |-> <<"W", "i", "d">>, Qty |-> <<"x">>] }

MatchCsvs == SeqsUpTo(MatchCsvRows, MaxCsvRows)

\* The longest list and CSV of the searches by sku and code.
MaxFindItems == 3
MaxFindRows == 2

\* Lists in which a sku or a code can occur twice, in every order.
FindItemLists == ListsOf({ItemA, ItemB, ItemC, ItemD}, MaxFindItems)

\* Rows naming a sku that is also a code, a code only, a padded sku, and
\* an identifier of no item.
FindCsvRows ==
    { CsvRow(<<" ", "1", "1", "1", " ">>, <<>>, <<"2">>),
      CsvRow(<<"3", "3", "3">>, <<>>, <<"2">>),
      CsvRow(<<"2", "2", "2">>, <<>>, <<"2">>),
      CsvRow(<<"9", "9", "9">>, <<>>, <<"2">>) }

FindCsvs == SeqsUpTo(FindCsvRows, MaxFindRows) \ {<<>>}

\* Rows of the bulk apply: each names an item of the list; the quantity
\* adds stock or takes it back.
BulkCsvRows ==
    { CsvRow(upc, <<>>, qty) :
        upc \in {<<"1", "1", "1">>, <<"2", "2", "2">>},
        qty \in {<<"2">>, <<"-", "9">>} }

BulkCsvs == SeqsUpTo(BulkCsvRows, MaxBulkRows) \ {<<>>}

BulkItems == <<ItemA, ItemB>>

\* The mirror as an earlier sync left it: a row for the items it saw.
MirrorOf(present) ==
    [id \in ItemIds |->
        IF id \in present
        THEN [name |-> <<id>>, sku |-> NullSku, code |-> NullSku,
              stockCount |-> InitialRemoteStock[id], tags |-> {}]
        ELSE NoRow]

StockMirrors == {MirrorOf(present) : present \in SUBSET {"A", "B"}}

\* Bodies posted to update-stock.
ApiBodies ==
    {ObjectBody(itemId, stockCount) :
        itemId \in {JUndefined, JString(""), JString("A"), JString("B")},
        stockCount \in {JUndefined, JNull, JString("5"), JNumber(0 - 1),
                        JNumber(0), JNumber(7)}}
    \cup {MalformedBody}

\* The modal with a tag, a CSV and its columns chosen.
OpenModal(method, upcColumn, nameColumn, stockColumn) ==
    [selectedTagId |-> "T1", referenceMethod |-> method,
     upcColumn |-> upcColumn, nameColumn |-> nameColumn,
     selectedVendorConfig |-> "default", stockColumn |-> stockColumn,
     error |-> "", success |-> "",
     fetchPending |-> FALSE, matchPending |-> FALSE, matchRan |-> FALSE,
     tagChanges |-> 0,
     csvFile |-> "items.csv", csvHeaders |-> <<"UPC", "Name", "Qty">>,
     parsing |-> <<>>, uploads |-> 0]

\* lines 1085-1102: the state of a modal just opened
ClosedModal ==
    [OpenModal("upc", "", "", "") EXCEPT
        !.selectedTagId = "", !.csvFile = "", !.csvHeaders = <<>>]

ModalSelections ==
    { OpenModal("upc", "UPC", "Name", "Qty"),
      OpenModal("upc", "", "Name", "Qty"),
      OpenModal("name", "UPC", "Name", "Qty"),
      OpenModal("upc", "UPC", "Name", "") }

\* The selections of the bulk apply: the default rule over the Qty column,
\* and the CoreMark rule.
BulkSelections ==
    { OpenModal("upc", "UPC", "Name", "Qty"),
      [OpenModal("upc", "UPC", "Name", "") EXCEPT
          !.selectedVendorConfig = "Vendor_CoreMark"] }

NoObs ==
    [statuses |-> <<>>, waits |-> <<>>, remoteBefore |-> Null,
     mirrorBefore |-> Null, apiCalls |-> 0, attempts |-> <<>>,
     inFlight |-> 0, rowStatuses |-> <<>>, pauses |-> <<>>]

\* Some caller of the API posts a body.
ApiPost ==
    /\ route.pc = "idle"
    /\ bulk.pc = "idle"
    /\ obs.apiCalls < MaxApiCalls
    /\ \E body \in ApiBodies : route' = RouteRequest(body, "api")
    /\ obs' = [ObserveRequest(obs) EXCEPT !.apiCalls = obs.apiCalls + 1]
    /\ UNCHANGED <<remoteStock, client, bulk>>
    /\ UNCHANGED <<mirror, syncVars, modalVars, auxVars>>

\* That caller reads the response.
ApiReceive ==
    /\ route.pc = "respond"
    /\ route.caller = "api"
    /\ route' = IdleRoute
    /\ obs' = [NoObs EXCEPT !.apiCalls = obs.apiCalls]
    /\ UNCHANGED <<remoteStock, client, bulk>>
    /\ UNCHANGED <<mirror, syncVars, modalVars, auxVars>>

(***************************************************************************)
(* handleProcessUpdates (ItemsTable.tsx)                                   *)
(***************************************************************************)
\* The delay after a successful row and the pause after a 429, in ms.
PacingDelayMs == 200
RateLimitPauseMs == 3000

\* The remote answered 429 at most three times and then 2xx.
TransientThenOk(statuses) ==
    /\ Len(statuses) \in 1..4
    /\ ResponseOk(statuses[Len(statuses)])
    /\ \A k \in 1..(Len(statuses) - 1) : statuses[k] = 429

IdleBulk ==
    [pc |-> "idle", rows |-> <<>>, i |-> 0, successCount |-> 0,
     errorCount |-> 0, successes |-> <<>>, errors |-> <<>>]

\* line 1440: the message mentions 429 or Too Many Requests
MentionsRateLimit(message) ==
    \E k \in 1..Len(message) : message[k] \in {"429", "Too Many Requests"}

\* A loop that ends after its first row.
StopAfterRow(rows, i) == "finish"

\* After row i of rows: the next row, or the report.
NextRowPc(rows, i) == IF i < Len(rows) THEN "send" ELSE "finish"

\* lines 1379-1396: the operator confirms; the loop runs over the Matched
\* list as it is now
BulkStart ==
    /\ bulk.pc = "idle"
    /\ IF Len(matchedItems) = 0
       THEN /\ modal' = [modal EXCEPT !.error = "No items to update"]
            /\ UNCHANGED bulk
       ELSE /\ bulk' = [IdleBulk EXCEPT !.pc = "send", !.rows = matchedItems,
                                        !.i = 1]
            /\ modal' = [modal EXCEPT !.error = ""]
    /\ UNCHANGED <<remoteStock, client, route, obs>>
    /\ UNCHANGED <<mirror, syncVars, auxVars>>
    /\ UNCHANGED <<csvData, cloverItems, matchedItems, unmatchedItems>>

\* lines 1398-1408: the request for row i is sent
BulkSend ==
    /\ bulk.pc = "send"
    /\ route.pc = "idle"
    /\ LET row == bulk.rows[bulk.i]
       IN route' = RouteRequest(ObjectBody(JString(row.item.id),
                                           JNumber(row.newStock)), "bulk")
    /\ bulk' = [bulk EXCEPT !.pc = "await"]
    /\ obs' = [ObserveRequest(obs) EXCEPT !.attempts = Append(@, bulk.i),
                                          !.inFlight = @ + 1]
    /\ UNCHANGED <<remoteStock, client>>
    /\ UNCHANGED <<mirror, syncVars, modalVars, auxVars>>

\* lines 1429-1444: fetch itself rejects; the row is a failure
BulkFetchFailed ==
    /\ bulk.pc = "send"
    /\ LET row == bulk.rows[bulk.i]
       IN bulk' = [bulk EXCEPT
                !.errorCount = @ + 1,
                !.errors = Append(@, [itemId |-> row.item.id,
                                      itemName |-> row.item.name,
                                      error |-> <<"Failed to fetch">>]),
                !.i = @ + 1,
                !.pc = NextRowPc(bulk.rows, bulk.i)]
    /\ obs' = [obs EXCEPT !.attempts = Append(@, bulk.i),
                          !.rowStatuses = Append(@, FALSE),
                          !.pauses = Append(@, <<>>)]
    /\ UNCHANGED <<remoteStock, client, route>>
    /\ UNCHANGED <<mirror, syncVars, modalVars, auxVars>>

\* lines 1410-1444: the response for row i arrives; a success or a failure
\* entry is recorded, the delay or the pause is taken, the loop goes on
BulkReceive ==
    /\ bulk.pc = "await"
    /\ route.pc = "respond"
    /\ route.caller = "bulk"
    /\ LET row == bulk.rows[bulk.i]
           resp == route.response
           errorMessage ==
               OrElse(resp.message, OrElse(resp.error, <<"HTTP", "status">>))
           pause ==
               IF resp.ok
               THEN IF bulk.i < Len(bulk.rows) THEN <<PacingDelayMs>> ELSE <<>>
               ELSE IF MentionsRateLimit(errorMessage)
                    THEN <<RateLimitPauseMs>> ELSE <<>>
       IN /\ IF resp.ok
             THEN bulk' = [bulk EXCEPT
                      !.successCount = @ + 1,
                      !.successes = Append(@, [itemId |-> row.item.id,
                                               itemName |-> row.item.name,
                                               currentStock |-> row.currentStock,
                                               addedStock |-> row.calculatedStock,
                                               newStock |-> row.newStock]),
                      !.i = @ + 1,
                      !.pc = NextRowPc(bulk.rows, bulk.i)]
             ELSE bulk' = [bulk EXCEPT
                      !.errorCount = @ + 1,
                      !.errors = Append(@, [itemId |-> row.item.id,
                                            itemName |-> row.item.name,
                                            error |-> errorMessage]),
                      !.i = @ + 1,
                      !.pc = NextRowPc(bulk.rows, bulk.i)]
          /\ obs' = [obs EXCEPT !.inFlight = @ - 1,
                                !.rowStatuses =
                                    Append(@, TransientThenOk(obs.statuses)),
                                !.pauses = Append(@, pause)]
    /\ route' = IdleRoute
    /\ UNCHANGED <<remoteStock, client>>
    /\ UNCHANGED <<mirror, syncVars, modalVars, auxVars>>

\* lines 1447-1475: the report
BulkFinish ==
    /\ bulk.pc = "finish"
    /\ bulk' = [bulk EXCEPT !.pc = "done"]
    /\ modal' = [modal EXCEPT
            !.error = IF bulk.errorCount = 0 THEN "" ELSE "Updated and failed items",
            !.success = IF bulk.errorCount = 0
                        THEN "Successfully updated stock" ELSE ""]
    /\ UNCHANGED <<remoteStock, client, route, obs>>
    /\ UNCHANGED <<mirror, syncVars, auxVars>>
    /\ UNCHANGED <<csvData, cloverItems, matchedItems, unmatchedItems>>

(***************************************************************************)
(* AddInventoryModal: the state beside the selections                      *)
(***************************************************************************)
MaxAddTags == 1
MaxMethodChanges == 1

\* No item carries any tag on Clover.
NoRemoteTags == [t \in TagIds |-> {}]

\* The add-tag flow at rest.
IdleAddTag ==
    [pc |-> "idle", itemId |-> "", sel |-> ClosedModal, csv |-> <<>>,
     refreshed |-> <<>>, fetched |-> FALSE]

\* loading and isProcessingRef false, no timer, no pass, no flow.  lastFind
\* tells how the last pass that ended did end.
IdleSession ==
    [loading |-> FALSE, isProcessingRef |-> FALSE, findPending |-> FALSE,
     finds |-> <<>>, addTag |-> IdleAddTag, lastFind |-> "none",
     addTags |-> 0, methodChanges |-> 0]

(***************************************************************************)
(* AddInventoryModal: matching (ItemsTable.tsx)                            *)
(***************************************************************************)
\* The identifier column of the selected reference method.
IdColumn(m) == IF m.referenceMethod = "upc" THEN m.upcColumn ELSE m.nameColumn

\* The value of the identifier column as it stands in the row.
UntrimmedValue(row, m) == Field(row, IdColumn(m))

\* lines 1320-1322: the value searched for a row
SearchValue(row, m) == OptTrim(Field(row, IdColumn(m)))

\* A search in one pass: the first item whose sku or code is the value.
FindBySkuOrCode(items, m, searchValue) ==
    LET Either(item) ==
            \/ OptTrim(item.sku) = searchValue
            \/ OptTrim(item.code) = searchValue
    IN FindIndex(items, Either)

\* lines 1329-1345: the index in items of the item a row matches, or 0
FindItem(items, m, searchValue) ==
    LET BySkuOrName(item) ==
            IF m.referenceMethod = "upc"
            THEN OptTrim(item.sku) = searchValue
            ELSE \/ Includes(ToLowerCase(item.name), ToLowerCase(searchValue))
                 \/ Includes(ToLowerCase(searchValue), ToLowerCase(item.name))
        ByCode(item) == OptTrim(item.code) = searchValue
        first == FindIndex(items, BySkuOrName)
    IN IF first = 0 /\ m.referenceMethod = "upc"
       THEN FindIndex(items, ByCode)
       ELSE first

\* The stockCount field alone.
StockCountField(item) ==
    IF item.stockCount # {} THEN CHOOSE n \in item.stockCount : TRUE ELSE 0

\* lines 1354-1355: item.itemStock?.stockCount ?? item.stockCount ?? 0
CurrentStock(item) ==
    IF item.itemStock # {} THEN CHOOSE n \in item.itemStock : TRUE
    ELSE IF item.stockCount # {} THEN CHOOSE n \in item.stockCount : TRUE
    ELSE 0

\* lines 1347-1364: the Matched entry of row idx and its item
MatchedEntry(idx, row, item, m) ==
    LET stockColumnName ==
            IF m.selectedVendorConfig = "default" THEN m.stockColumn ELSE ""
        calculatedStock ==
            CalculateStock(m.selectedVendorConfig, row, stockColumnName)
        currentStock == CurrentStock(item)
    IN [idx |-> idx, csvRow |-> row, item |-> item,
        currentStock |-> currentStock,
        newStock |-> currentStock + calculatedStock,
        calculatedStock |-> calculatedStock]

\* lines 1367-1371: the Unmatched entry of row idx
UnmatchedEntry(idx, row, searchValue, m) ==
    [idx |-> idx, csvRow |-> row, searchValue |-> searchValue,
     referenceMethod |-> m.referenceMethod]

RECURSIVE MatchRows(_, _, _, _, _)
\* lines 1319-1373: the loop over the CSV rows, from row idx on; each entry
\* carries the index of its row (idx), which the code does not store.
MatchRows(idx, csv, items, m, acc) ==
    IF idx > Len(csv) THEN acc
    ELSE LET row == csv[idx]
             searchValue == SearchValue(row, m)
             found == FindItem(items, m, searchValue)
         IN IF Falsy(searchValue)
            THEN MatchRows(idx + 1, csv, items, m, acc)
            ELSE IF found # 0
            THEN MatchRows(idx + 1, csv, items, m,
                    [acc EXCEPT !.matched =
                        Append(@, MatchedEntry(idx, row, items[found], m))])
            ELSE MatchRows(idx + 1, csv, items, m,
                    [acc EXCEPT !.unmatched =
                        Append(@, UnmatchedEntry(idx, row, searchValue, m))])

\* lines 1296-1377: matchItems; ran is FALSE when a guard returned early
MatchItems(items, csv, m) ==
    IF m.selectedTagId = "" \/ Len(csv) = 0 \/ Len(items) = 0
    THEN [ran |-> FALSE, error |-> "Please fetch items by tag first"]
    ELSE IF m.referenceMethod = "upc" /\ m.upcColumn = ""
    THEN [ran |-> FALSE, error |-> "Please select UPC column"]
    ELSE IF m.referenceMethod = "name" /\ m.nameColumn = ""
    THEN [ran |-> FALSE, error |-> "Please select Name column"]
    ELSE LET lists == MatchRows(1, csv, items, m,
                                [matched |-> <<>>, unmatched |-> <<>>])
         IN [ran |-> TRUE, matched |-> lists.matched,
             unmatched |-> lists.unmatched]

\* lines 1547-1556: the condition under which the auto-match effect arms
\* its timer (loading and isProcessingRef are false when no pass is running)
AutoMatchReady(m, csv, items) ==
    /\ m.selectedTagId # ""
    /\ Len(csv) > 0
    /\ Len(items) > 0
    /\ IdColumn(m) # ""
    /\ (m.selectedVendorConfig # "default" \/ m.stockColumn # "")

\* lines 1527-1534: the condition under which the auto-find effect arms
\* its timer, loading and isProcessingRef apart
FindReady(m, csv, items) ==
    /\ m.selectedTagId # ""
    /\ Len(csv) > 0
    /\ Len(items) > 0
    /\ IdColumn(m) # ""

\* lines 1532-1533 and 1554-1555: !loading && !isProcessingRef.current
MayArm(s) == ~s.loading /\ ~s.isProcessingRef

\* lines 1557-1566: the auto-match timer fires and runs matchItems
AutoMatch ==
    /\ modal.matchPending
    /\ LET result == MatchItems(cloverItems, csvData, modal)
       IN IF result.ran
          THEN /\ matchedItems' = result.matched
               /\ unmatchedItems' = result.unmatched
               /\ modal' = [modal EXCEPT !.matchPending = FALSE,
                                         !.matchRan = TRUE]
          ELSE /\ modal' = [modal EXCEPT !.matchPending = FALSE,
                                         !.error = result.error]
               /\ UNCHANGED <<matchedItems, unmatchedItems>>
    /\ UNCHANGED <<csvData, cloverItems>>
    /\ UNCHANGED <<mirror, syncVars, stockVars, auxVars>>

\* lines 1526-1544 and 1557-1559: the auto-match timer fires while the
\* find-missing pass that the same render started is still in flight
\* (isProcessingRef.current is true); matchItems is not called
AutoMatchSkipped ==
    /\ modal.matchPending
    /\ modal' = [modal EXCEPT !.matchPending = FALSE]
    /\ UNCHANGED <<csvData, cloverItems, matchedItems, unmatchedItems>>
    /\ UNCHANGED <<mirror, syncVars, stockVars, auxVars>>

\* lines 1155-1185 and 1518-1523: the tag-scoped items arrive; the effects
\* see the new list
FetchItemsByTagDone ==
    /\ modal.fetchPending
    /\ \E items \in TagItemLists :
          /\ cloverItems' = items
          /\ modal' = [modal EXCEPT !.fetchPending = FALSE, !.error = "",
                          !.matchPending =
                              /\ AutoMatchReady(modal, csvData, items)
                              /\ ~session.isProcessingRef]
          /\ session' = [session EXCEPT
                !.loading = FALSE,
                !.findPending = /\ FindReady(modal, csvData, items)
                                /\ ~session.isProcessingRef]
    /\ UNCHANGED <<csvData, matchedItems, unmatchedItems>>
    /\ UNCHANGED <<mirror, syncVars, stockVars>>
    /\ UNCHANGED <<refresh, calc, tagsApi, remoteTags, missingItems>>

\* lines 1179-1181: the fetch fails; the list stays as it was
FetchItemsByTagFailed ==
    /\ modal.fetchPending
    /\ modal' = [modal EXCEPT !.fetchPending = FALSE,
                              !.error = "Failed to fetch items"]
    /\ session' = [session EXCEPT !.loading = FALSE]
    /\ UNCHANGED <<csvData, cloverItems, matchedItems, unmatchedItems>>
    /\ UNCHANGED <<mirror, syncVars, stockVars>>
    /\ UNCHANGED <<refresh, calc, tagsApi, remoteTags, missingItems>>

\* lines 1478-1483 and 1518-1535: the operator picks another tag; the item
\* list, the MissingTag list and the Matched list are cleared (the
\* Unmatched list is not), the timers are cleared and the items of the
\* new tag are fetched
HandleTagChange ==
    /\ ~modal.fetchPending
    /\ modal.tagChanges < MaxTagChanges
    /\ \E tagId \in TagIds \ {modal.selectedTagId} :
          modal' = [modal EXCEPT !.selectedTagId = tagId,
                                 !.fetchPending = TRUE,
                                 !.error = "",
                                 !.matchPending = FALSE,
                                 !.matchRan = FALSE,
                                 !.tagChanges = modal.tagChanges + 1]
    /\ cloverItems' = <<>>
    /\ missingItems' = <<>>
    /\ matchedItems' = <<>>
    /\ session' = [session EXCEPT !.loading = TRUE, !.findPending = FALSE]
    /\ UNCHANGED <<csvData, unmatchedItems>>
    /\ UNCHANGED <<mirror, syncVars, stockVars>>
    /\ UNCHANGED <<refresh, calc, tagsApi, remoteTags>>

(***************************************************************************)
(* Missing-tag detection and the add-tag loop                              *)
(* (find-missing-items/route.ts, add-tag/route.ts, ItemsTable.tsx)         *)
(***************************************************************************)
\* The ids of a list of items.
IdsOf(items) == {items[i].id : i \in 1..Len(items)}

\* Array.prototype.filter
Filter(s, Keep(_)) == SelectSeq(s, Keep)

(***************************************************************************)
(* POST /api/inventory/find-missing-items                                  *)
(***************************************************************************)
\* The mirror's ids in the order findMany returns the rows.
IdOrder == <<"A", "B", "C">>

\* where: { NOT: { tags: { has: tagId } } }
WithoutTag(m, tagId) ==
    Filter(IdOrder, LAMBDA id : m[id] # NoRow /\ tagId \notin m[id].tags)

\* A nullable column as the handler reads it.
Column(value) == IF value = NullSku THEN Undefined ELSE value

\* { id, name, sku } of a mirror row
Selected(m, id) == [id |-> id, name |-> m[id].name, sku |-> m[id].sku]

RECURSIVE ScanItems(_, _, _, _)
\* lines 62-85: the items a search value matches, those already matched
\* skipped
ScanItems(m, ids, searchUPC, acc) ==
    IF ids = <<>> THEN acc
    ELSE LET id == Head(ids)
         IN IF id \in IdsOf(acc) THEN ScanItems(m, Tail(ids), searchUPC, acc)
            ELSE IF \/ FuzzyMatchUPC(Column(m[id].sku), searchUPC)
                    \/ FuzzyMatchUPC(Column(m[id].code), searchUPC)
            THEN ScanItems(m, Tail(ids), searchUPC,
                           Append(acc, Selected(m, id)))
            ELSE ScanItems(m, Tail(ids), searchUPC, acc)

RECURSIVE ScanUpcs(_, _, _, _)
\* lines 59-86: the loop over the search values; blank ones are skipped
ScanUpcs(m, ids, upcs, acc) ==
    IF upcs = <<>> THEN acc
    ELSE IF Falsy(Head(upcs)) \/ Trim(Head(upcs)) = <<>>
    THEN ScanUpcs(m, ids, Tail(upcs), acc)
    ELSE ScanUpcs(m, ids, Tail(upcs), ScanItems(m, ids, Head(upcs), acc))

\* name: { contains: searchName, mode: "insensitive" }
NameContains(name, searchName) ==
    Includes(ToLowerCase(name), ToLowerCase(searchName))

RECURSIVE ScanNames(_, _, _, _)
\* lines 93-111: one findMany per name, the results concatenated
ScanNames(m, ids, names, acc) ==
    IF names = <<>> THEN acc
    ELSE ScanNames(m, ids, Tail(names),
            acc \o [i \in 1..Len(Filter(ids,
                        LAMBDA id : NameContains(m[id].name, Head(names)))) |->
                      Selected(m, Filter(ids,
                        LAMBDA id : NameContains(m[id].name, Head(names)))[i])])

RECURSIVE UniqueById(_, _)
\* lines 114-116: new Map(allItems.map(item => [item.id, item])).values():
\* one entry per id, in the order of first appearance
UniqueById(items, seen) ==
    IF items = <<>> THEN <<>>
    ELSE IF Head(items).id \in seen THEN UniqueById(Tail(items), seen)
    ELSE <<Head(items)>> \o UniqueById(Tail(items), seen \cup {Head(items).id})

\* lines 34-119: the items of the response
FindMissingRoute(m, tagId, method, values) ==
    IF values = <<>> THEN <<>>
    ELSE IF method = "upc"
    THEN ScanUpcs(m, WithoutTag(m, tagId), values, <<>>)
    ELSE UniqueById(ScanNames(m, WithoutTag(m, tagId), values, <<>>), {})

(***************************************************************************)
(* POST /api/inventory/add-tag                                             *)
(***************************************************************************)
\* The catalog the tags are put on.
PoolItems == <<ItemA, ItemB, ItemC>>

\* fetchItemsByTag: the items carrying the tag (itemStock expanded, the
\* tags not).
TagList(ids) == Filter(PoolItems, LAMBDA item : item.id \in ids)

RECURSIVE UpsertAll(_, _)
\* lines 33-94: for each item of the tag, the row that owns its sku under
\* another id is deleted and the item is upserted
UpsertAll(m, items) ==
    IF items = <<>> THEN m
    ELSE LET item == Head(items)
             stale == IF Falsy(item.sku) THEN {}
                      ELSE FindBySku(m, item.sku) \ {item.id}
             kept == [id \in ItemIds |-> IF id \in stale THEN NoRow ELSE m[id]]
         IN UpsertAll([kept EXCEPT ![item.id] = UpsertRow(item)], Tail(items))

(***************************************************************************)
(* AddInventoryModal: findMissingItems, addTagToItem, the effects          *)
(***************************************************************************)
\* lines 1188-1201: the message of the guard that returns early, or ""
FindMissingGuard(m, csv) ==
    IF m.selectedTagId = "" \/ Len(csv) = 0
    THEN "Please select a vendor and upload a CSV file"
    ELSE IF m.referenceMethod = "upc" /\ m.upcColumn = ""
    THEN "Please select UPC column"
    ELSE IF m.referenceMethod = "name" /\ m.nameColumn = ""
    THEN "Please select Name column"
    ELSE ""

\* lines 1210-1212: the column's values, the falsy ones dropped
FindValues(csv, m) ==
    Filter([i \in 1..Len(csv) |-> Field(csv[i], IdColumn(m))],
           LAMBDA v : ~Falsy(v))

\* The response's items as they are.
Unfiltered(fromApi, items) == fromApi

\* lines 1227-1234: the items of the response that are not in the list
TrulyMissing(fromApi, items) ==
    Filter(fromApi, LAMBDA item : item.id \notin IdsOf(items))

\* A pass in flight: what findMissingItems captured when it was called.
FindPass(origin, m, csv, items) ==
    [origin |-> origin, sel |-> m, csv |-> csv, items |-> items]

\* The sequence without its i-th element.
Without(s, i) == SubSeq(s, 1, i - 1) \o SubSeq(s, i + 1, Len(s))

\* lines 1535-1541: the auto-find timer fires: isProcessingRef is set
\* without being read, findMissingItems() is called on the list in state
FindTimerFire ==
    /\ session.findPending
    /\ LET err == FindMissingGuard(modal, csvData)
       IN IF err = ""
          THEN /\ session' = [session EXCEPT
                     !.findPending = FALSE, !.isProcessingRef = TRUE,
                     !.loading = TRUE,
                     !.finds = Append(@, FindPass("auto", modal, csvData,
                                                  cloverItems))]
               /\ modal' = [modal EXCEPT !.error = ""]
          ELSE /\ session' = [session EXCEPT !.findPending = FALSE]
               /\ modal' = [modal EXCEPT !.error = err]
    /\ UNCHANGED <<csvData, cloverItems, matchedItems, unmatchedItems>>
    /\ UNCHANGED <<mirror, syncVars, stockVars>>
    /\ UNCHANGED <<refresh, calc, tagsApi, remoteTags, missingItems>>

\* lines 1274-1288: after the flow's findMissingItems, matchItems on the
\* refreshed list, the success message, the flow ends.  s and m are the
\* session and the modal as the pass left them.
FinishAddTag(s, m) ==
    LET flow == session.addTag
        called == /\ Len(flow.csv) > 0
                  /\ Len(flow.refreshed) > 0
                  /\ IdColumn(flow.sel) # ""
        result == MatchItems(flow.refreshed, flow.csv, flow.sel)
        ran == called /\ result.ran
    IN /\ matchedItems' = IF ran THEN result.matched ELSE matchedItems
       /\ unmatchedItems' = IF ran THEN result.unmatched ELSE unmatchedItems
       /\ modal' = [m EXCEPT
             !.success = "Tag added successfully",
             !.error = IF called /\ ~result.ran THEN result.error ELSE @,
             !.matchRan = IF ran THEN TRUE ELSE @]
       /\ session' = [s EXCEPT !.addTag = IdleAddTag]

\* find-missing-items answers a pass (route lines 34-125, client lines
\* 1223-1240): the list is replaced by the items of the response that are
\* not in the list the pass was given
FindMissingDone ==
    \E i \in 1..Len(session.finds) :
        LET pass == session.finds[i]
            fromApi == FindMissingRoute(mirror, pass.sel.selectedTagId,
                                        pass.sel.referenceMethod,
                                        FindValues(pass.csv, pass.sel))
            s == [session EXCEPT
                    !.loading = FALSE,
                    !.finds = Without(@, i),
                    !.isProcessingRef =
                        IF pass.origin = "auto" THEN FALSE ELSE @,
                    !.lastFind = "ok"]
        IN /\ missingItems' = TrulyMissing(fromApi, pass.items)
           /\ IF pass.origin = "addTag"
              THEN FinishAddTag(s, modal)
              ELSE /\ session' = s
                   /\ UNCHANGED <<modal, matchedItems, unmatchedItems>>
           /\ UNCHANGED <<csvData, cloverItems>>
           /\ UNCHANGED <<mirror, syncVars, stockVars>>
           /\ UNCHANGED <<refresh, calc, tagsApi, remoteTags>>

\* lines 1221 and 1237-1241: the request fails; the list stays as it was
FindMissingFailed ==
    \E i \in 1..Len(session.finds) :
        LET pass == session.finds[i]
            s == [session EXCEPT
                    !.loading = FALSE,
                    !.finds = Without(@, i),
                    !.isProcessingRef =
                        IF pass.origin = "auto" THEN FALSE ELSE @,
                    !.lastFind = "failed"]
            m == [modal EXCEPT !.error = "Failed to find missing items"]
        IN /\ UNCHANGED <<refresh, calc, tagsApi, remoteTags, missingItems>>
           /\ IF pass.origin = "addTag"
              THEN FinishAddTag(s, m)
              ELSE /\ session' = s
                   /\ modal' = m
                   /\ UNCHANGED <<matchedItems, unmatchedItems>>
           /\ UNCHANGED <<csvData, cloverItems>>
           /\ UNCHANGED <<mirror, syncVars, stockVars>>

\* lines 1246-1258 and 1762: the operator clicks "add tag" on a listed
\* item; the button is disabled while a flow is running
AddTagClick ==
    /\ session.addTag.pc = "idle"
    /\ session.addTags < MaxAddTags
    /\ modal.selectedTagId # ""
    /\ \E i \in 1..Len(missingItems) :
          session' = [session EXCEPT
              !.addTags = @ + 1,
              !.addTag = [pc |-> "post", itemId |-> missingItems[i].id,
                          sel |-> modal, csv |-> csvData,
                          refreshed |-> <<>>, fetched |-> FALSE]]
    /\ modal' = [modal EXCEPT !.error = "", !.success = ""]
    /\ UNCHANGED <<csvData, cloverItems, matchedItems, unmatchedItems>>
    /\ UNCHANGED <<mirror, syncVars, stockVars>>
    /\ UNCHANGED <<refresh, calc, tagsApi, remoteTags, missingItems>>

\* add-tag/route.ts lines 22-102 and client lines 1265-1271: Clover takes
\* the association, the tag's items are upserted into the mirror, the item
\* leaves the list and the client calls fetchItemsByTag
AddTagDone ==
    /\ session.addTag.pc = "post"
    /\ LET flow == session.addTag
           tagId == flow.sel.selectedTagId
           tagged == remoteTags[tagId] \cup {flow.itemId}
       IN /\ remoteTags' = [remoteTags EXCEPT ![tagId] = tagged]
          /\ mirror' = UpsertAll(mirror, TagList(tagged))
          /\ missingItems' =
                Filter(missingItems, LAMBDA item : item.id # flow.itemId)
    /\ session' = [session EXCEPT !.addTag.pc = "fetch", !.loading = TRUE]
    /\ modal' = [modal EXCEPT !.error = ""]
    /\ UNCHANGED <<csvData, cloverItems, matchedItems, unmatchedItems>>
    /\ UNCHANGED <<syncVars, stockVars>>
    /\ UNCHANGED <<refresh, calc, tagsApi>>

\* add-tag/route.ts lines 103-113 and client lines 1260-1263, 1289-1293:
\* Clover refuses the association; the flow ends with the message
AddTagFailed ==
    /\ session.addTag.pc = "post"
    /\ session' = [session EXCEPT !.addTag = IdleAddTag]
    /\ modal' = [modal EXCEPT !.error = "Failed to add tag to item"]
    /\ UNCHANGED <<csvData, cloverItems, matchedItems, unmatchedItems>>
    /\ UNCHANGED <<mirror, syncVars, stockVars>>
    /\ UNCHANGED <<refresh, calc, tagsApi, remoteTags, missingItems>>

\* The flow calls findMissingItems(refreshed): lines 1273-1276.  A pass is
\* started unless a guard returns early.
FlowFindCalled(flow) ==
    /\ Len(flow.csv) > 0
    /\ IdColumn(flow.sel) # ""
    /\ FindMissingGuard(flow.sel, flow.csv) = ""

\* lines 1270-1276 and 1164-1178: the tag's items arrive and replace the
\* list; the flow goes on to findMissingItems(refreshedItems) before the
\* next render, so the effects that the new length re-runs see loading set
AddTagRefetchDone ==
    /\ session.addTag.pc = "fetch"
    /\ UNCHANGED <<refresh, calc, tagsApi, remoteTags, missingItems>>
    /\ LET flow == [session.addTag EXCEPT
                       !.refreshed = TagList(
                           remoteTags[session.addTag.sel.selectedTagId]),
                       !.fetched = TRUE]
           items == flow.refreshed
           rerun == Len(items) # Len(cloverItems)
       IN /\ cloverItems' = items
          /\ IF FlowFindCalled(flow)
             THEN /\ session' = [session EXCEPT
                        !.addTag = [flow EXCEPT !.pc = "find"],
                        !.loading = TRUE,
                        !.findPending = IF rerun THEN FALSE ELSE @,
                        !.finds = Append(@, FindPass("addTag", flow.sel,
                                                     flow.csv, items))]
                  /\ modal' = [modal EXCEPT
                        !.error = "",
                        !.matchPending = IF rerun THEN FALSE ELSE @]
                  /\ UNCHANGED <<matchedItems, unmatchedItems>>
             ELSE FinishAddTag(
                    [session EXCEPT
                        !.addTag = flow,
                        !.loading = FALSE,
                        !.findPending =
                            IF rerun
                            THEN /\ FindReady(modal, csvData, items)
                                 /\ ~session.isProcessingRef
                            ELSE @],
                    [modal EXCEPT
                        !.matchPending =
                            IF rerun
                            THEN /\ AutoMatchReady(modal, csvData, items)
                                 /\ ~session.isProcessingRef
                            ELSE @])
    /\ UNCHANGED csvData
    /\ UNCHANGED <<mirror, syncVars, stockVars>>

\* lines 1179-1184 and 1270-1276: the fetch fails; fetchItemsByTag returns
\* [] and the flow calls findMissingItems([])
AddTagRefetchFailed ==
    /\ session.addTag.pc = "fetch"
    /\ UNCHANGED <<refresh, calc, tagsApi, remoteTags, missingItems>>
    /\ LET flow == session.addTag
       IN IF FlowFindCalled(flow)
          THEN /\ session' = [session EXCEPT
                     !.addTag.pc = "find",
                     !.loading = TRUE,
                     !.finds = Append(@, FindPass("addTag", flow.sel,
                                                  flow.csv, <<>>))]
               /\ modal' = [modal EXCEPT !.error = ""]
               /\ UNCHANGED <<matchedItems, unmatchedItems>>
          ELSE FinishAddTag([session EXCEPT !.loading = FALSE],
                            [modal EXCEPT !.error = "Failed to fetch items"])
    /\ UNCHANGED <<csvData, cloverItems>>
    /\ UNCHANGED <<mirror, syncVars, stockVars>>

\* line 1660 and the effects: the operator switches the reference method;
\* both effects run again and arm their timers if their conditions hold
HandleMethodChange ==
    /\ session.methodChanges < MaxMethodChanges
    /\ LET m == [modal EXCEPT !.referenceMethod =
                     IF @ = "upc" THEN "name" ELSE "upc"]
       IN /\ modal' = [m EXCEPT !.matchPending =
                          /\ AutoMatchReady(m, csvData, cloverItems)
                          /\ MayArm(session)]
          /\ session' = [session EXCEPT
                !.methodChanges = @ + 1,
                !.findPending = /\ FindReady(m, csvData, cloverItems)
                                /\ MayArm(session)]
    /\ UNCHANGED <<csvData, cloverItems, matchedItems, unmatchedItems>>
    /\ UNCHANGED <<mirror, syncVars, stockVars>>
    /\ UNCHANGED <<refresh, calc, tagsApi, remoteTags, missingItems>>

(***************************************************************************)
(* Inputs of the detection and of the add-tag loop                         *)
(***************************************************************************)
\* The mirror rows of the catalog's items in present, those in tagged
\* carrying T1.
ResolveMirror(present, tagged) ==
    [id \in ItemIds |->
        IF id \in present
        THEN [UpsertRow(CHOOSE item \in {ItemA, ItemB, ItemC} : item.id = id)
                EXCEPT !.tags = IF id \in tagged THEN {"T1"} ELSE {}]
        ELSE NoRow]

\* Mirrors of the whole catalog: no row carries T1, B alone does, A and
\* C do.
ResolveMirrors ==
    {ResolveMirror(ItemIds, tagged) : tagged \in {{}, {"B"}, {"A", "C"}}}

\* The items that carry T1 on Clover when the modal fetches them.
ResolveTagged ==
    {ids \in SUBSET ItemIds : ids # {} /\ Cardinality(ids) <= MaxTagItems}

\* A CSV naming A by its sku and B by its code, with a blank identifier
\* and a name that is part of two item names; a CSV naming C twice by its
\* code, once with a leading zero, with an empty name and a short row.
ResolveCsvs ==
    { << CsvRow(<<"1", "1", "1">>, <<"W", "i", "d", "g", "e", "t">>, <<"2">>),
         CsvRow(<<" ", " ">>, <<"d", "g", "e">>, <<"1">>) >>,
      << CsvRow(<<"0", "3", "3", "3">>, <<"W", "I", "D">>, <<"1">>),
         CsvRow(<<"3", "3", "3">>, <<>>, <<"1">>),
         [Name |-> <<"x">>, Qty |-> <<"1">>] >> }

ResolveSelections ==
    { OpenModal("upc", "UPC", "Name", "Qty"),
      OpenModal("name", "UPC", "Name", "Qty") }

(***************************************************************************)
(* AddInventoryModal: handleFileUpload                                     *)
(***************************************************************************)
MaxUploads == 2

\* The letters of a header.
HeaderText(h) ==
    CASE h = "UPC" -> <<"U", "P", "C">>
      [] h = "Name" -> <<"N", "a", "m", "e">>
      [] h = "Qty" -> <<"Q", "t", "y">>
      [] h = "Sku" -> <<"S", "k", "u">>
      [] h = "Product" -> <<"P", "r", "o", "d", "u", "c", "t">>
      [] h = "Count" -> <<"C", "o", "u", "n", "t">>
      [] OTHER -> <<>>

\* What Papa.parse reports for a file: the header row, the rows it could
\* read, its errors; unreadable when the error callback is called instead.
CsvFile(name, headers, data, errors, unreadable) ==
    [name |-> name, headers |-> headers, data |-> data, errors |-> errors,
     unreadable |-> unreadable]

\* A file that parses, with the headers of the first; one whose headers
\* differ and whose quantity header is not recognised; a file with a short
\* line, of which Papa.parse still reads the rows; a file with the header
\* row alone; a file that cannot be read.
UploadFiles ==
    { CsvFile("items.csv", <<"UPC", "Name", "Qty">>,
              << CsvRow(<<"1", "1", "1">>, <<"W", "i", "d">>, <<"2">>) >>,
              <<>>, FALSE),
      CsvFile("other.csv", <<"Sku", "Product", "Count">>,
              << [Sku |-> <<"2", "2", "2">>, Product |-> <<"G", "a", "d">>,
                  Count |-> <<"1">>],
                 [Sku |-> <<"1", "1", "1">>, Product |-> <<"W">>,
                  Count |-> <<"3">>] >>,
              <<>>, FALSE),
      CsvFile("broken.csv", <<"UPC", "Name", "Qty">>,
              << CsvRow(<<"1", "1", "1">>, <<"b", "r", "o", "k", "e", "n">>,
                        <<"9">>) >>,
              <<"Too few fields">>, FALSE),
      CsvFile("empty.csv", <<"UPC", "Name", "Qty">>, <<>>, <<>>, FALSE),
      CsvFile("unreadable.csv", <<>>, <<>>, <<>>, TRUE) }

\* lines 1132-1143: headers.find(h => h.toLowerCase().includes(...)), or ""
DetectHeader(headers, needles) ==
    LET Has(h) == \E needle \in needles :
                     Includes(ToLowerCase(HeaderText(h)), needle)
        i == FindIndex(headers, Has)
    IN IF i = 0 THEN "" ELSE headers[i]

UpcNeedles == {<<"u", "p", "c">>, <<"s", "k", "u">>}
NameNeedles == {<<"n", "a", "m", "e">>, <<"p", "r", "o", "d", "u", "c", "t">>}
StockNeedles ==
    {<<"q", "u", "a", "n", "t", "i", "t", "y">>, <<"q", "t", "y">>,
     <<"s", "t", "o", "c", "k">>,
     <<"s", "h", "i", "p", "q", "u", "a", "n", "t", "i", "t", "y">>}

\* A setter called only when a header was found.
SetIfFound(found, current) == IF found # "" THEN found ELSE current

\* A check that lets every parse result through.
NoParseError(file) == ""

\* lines 1118-1124: the message for a parse result that is not taken, or ""
ParseErrorMessage(file) ==
    IF file.errors # <<>> THEN "CSV parsing errors"
    ELSE IF file.data = <<>> THEN "CSV file is empty"
    ELSE ""

\* lines 1104-1111: the operator picks a file; Papa.parse starts
HandleFileUpload ==
    /\ modal.uploads < MaxUploads
    /\ \E file \in UploadFiles :
          modal' = [modal EXCEPT !.csvFile = file.name, !.error = "",
                                 !.success = "",
                                 !.parsing = Append(@, file),
                                 !.uploads = @ + 1]
    /\ UNCHANGED <<csvData, cloverItems, matchedItems, unmatchedItems>>
    /\ UNCHANGED <<mirror, syncVars, stockVars, auxVars>>

\* lines 1115-1152: Papa.parse calls complete, or error.  A result with
\* errors or without rows sets the message and nothing else; otherwise the
\* rows, the headers and the detected columns are set, and the effects
\* whose dependencies changed run again.
ParseComplete ==
    /\ \E i \in 1..Len(modal.parsing) :
           LET file == modal.parsing[i]
               rest == [modal EXCEPT !.parsing = Without(@, i)]
               message == ParseErrorMessage(file)
               taken == [rest EXCEPT
                   !.csvHeaders = file.headers,
                   !.upcColumn = SetIfFound(
                       DetectHeader(file.headers, UpcNeedles), @),
                   !.nameColumn = SetIfFound(
                       DetectHeader(file.headers, NameNeedles), @),
                   !.stockColumn = SetIfFound(
                       DetectHeader(file.headers, StockNeedles), @)]
               findDeps(m, csv) == <<Len(csv), m.upcColumn, m.nameColumn>>
               matchDeps(m, csv) == <<findDeps(m, csv), m.stockColumn>>
           IN IF file.unreadable
              THEN /\ modal' = [rest EXCEPT !.error = "Failed to parse CSV"]
                   /\ UNCHANGED <<csvData, session>>
              ELSE IF message # ""
              THEN /\ modal' = [rest EXCEPT !.error = message]
                   /\ UNCHANGED <<csvData, session>>
              ELSE /\ csvData' = file.data
                   /\ modal' = [taken EXCEPT !.matchPending =
                         IF matchDeps(taken, file.data)
                               # matchDeps(modal, csvData)
                         THEN /\ AutoMatchReady(taken, file.data, cloverItems)
                              /\ MayArm(session)
                         ELSE @]
                   /\ session' = [session EXCEPT !.findPending =
                         IF findDeps(taken, file.data)
                               # findDeps(modal, csvData)
                         THEN /\ FindReady(taken, file.data, cloverItems)
                              /\ MayArm(session)
                         ELSE @]
    /\ UNCHANGED <<cloverItems, matchedItems, unmatchedItems>>
    /\ UNCHANGED <<mirror, syncVars, stockVars>>
    /\ UNCHANGED <<refresh, calc, tagsApi, remoteTags, missingItems>>

(***************************************************************************)
(* CloverAPI.fetchAllItems (clover.ts)                                     *)
(***************************************************************************)
\* const limit = 1000, and the wait between two pages in ms.
PageLimit == 1000
PageDelayMs == 100

\* The largest number of full pages the remote collection holds.
MaxFullPages == 3

\* The sizes of the remote collection: a number of full pages and a rest.
CollectionSizes ==
    {k * PageLimit + d : k \in 0..MaxFullPages, d \in {0, 1, 500, 999}}

\* What a page request can come back with that is not 2xx; 0 is fetch
\* itself failing.
PageFailures == {429, 500, 503, 0}

\* lines 253-259: the message of the error makeRequest throws
MakeRequestError(status) ==
    IF status = 0 THEN <<"fetch failed">>
    ELSE <<"Clover API error:", StatusToken(status), StatusText(status), "-",
           "<errorText>">>

\* Nothing returned, and the list returned.
NoList == [returned |-> FALSE, items |-> <<>>]
Returned(items) == [returned |-> TRUE, items |-> items]

\* GET /items?limit&offset on a collection of size items: the page holds
\* the items from offset on, limit at most; a page is the position of its
\* first item and its length.
RemotePage(size, limit, offset) ==
    [from |-> offset,
     count |-> IF offset >= size THEN 0
               ELSE IF size - offset < limit THEN size - offset ELSE limit]

\* A loop that goes on while the page holds any item.
NotEmpty(count, limit) == count > 0

\* line 365: hasMore = items.length === limit
HasMore(count, limit) == count = limit

\* lines 347-359: fetchAllItems is called; the request of the first page
\* is in flight
FetchAllItemsCall(size) ==
    [op |-> "fetchAllItems", size |-> size, pc |-> "request", offset |-> 0,
     allItems |-> <<>>, requests |-> <<0>>, delays |-> <<>>,
     error |-> <<>>, result |-> NoList]

\* lines 355-371 and 378: the page arrives; its items are pushed, and
\* after the wait the next page is requested, or the list is returned
FetchPageDone ==
    /\ calc.op = "fetchAllItems"
    /\ calc.pc = "request"
    /\ LET page == RemotePage(calc.size, PageLimit, calc.offset)
           allItems == Append(calc.allItems, page)
           hasMore == HasMore(page.count, PageLimit)
           offset == calc.offset + PageLimit
       IN calc' = IF hasMore
                  THEN [calc EXCEPT !.allItems = allItems,
                                    !.offset = offset,
                                    !.delays = Append(@, PageDelayMs),
                                    !.requests = Append(@, offset)]
                  ELSE [calc EXCEPT !.allItems = allItems,
                                    !.offset = offset,
                                    !.pc = "done",
                                    !.result = Returned(allItems)]
    /\ UNCHANGED <<mirror, syncLogs, sync, hist>>
    /\ UNCHANGED <<remoteStock, client, route, bulk, obs>>
    /\ UNCHANGED <<modal, csvData, cloverItems, matchedItems, unmatchedItems>>
    /\ UNCHANGED <<refresh, tagsApi, remoteTags, missingItems, session>>

\* lines 253-259 and 372-375: the response is not ok; makeRequest throws
\* and the catch throws the error again
FetchPageFailed ==
    /\ calc.op = "fetchAllItems"
    /\ calc.pc = "request"
    /\ \E status \in PageFailures :
          calc' = [calc EXCEPT !.pc = "failed",
                               !.error = MakeRequestError(status)]
    /\ UNCHANGED <<mirror, syncLogs, sync, hist>>
    /\ UNCHANGED <<remoteStock, client, route, bulk, obs>>
    /\ UNCHANGED <<modal, csvData, cloverItems, matchedItems, unmatchedItems>>
    /\ UNCHANGED <<refresh, tagsApi, remoteTags, missingItems, session>>

(***************************************************************************)
(* GET /api/tags and the module's tagsCache                                *)
(***************************************************************************)
MaxClock == 6
MaxTagRequests == 3

\* One tick of the clock, in milliseconds.
TickMs == 60 * 1000

\* line 8
CACHE_DURATION == 5 * 60 * 1000

\* The tag lists Clover may hold.
RemoteTagLists == {<<"T1">>, <<"T1", "T2">>}

\* line 7: let tagsCache = null
NoCache == [filled |-> FALSE, data |-> <<>>, timestamp |-> 0]

\* No request yet; the clock at 0.
IdleTags ==
    [now |-> 0, tagsCache |-> NoCache, remote |-> <<"T1">>, reqs |-> <<>>,
     fills |-> {}]

\* fetchTags: the elements Clover holds, or [] when the request fails.
FetchTagsResults(remote) == {remote, <<>>}

\* A cache that every request takes for fresh.
AlwaysValid(cache, now) == cache.filled

\* line 15: the cached tags are still valid
CacheValid(cache, now) ==
    cache.filled /\ (now - cache.timestamp) < CACHE_DURATION

\* Time passes.
TagsTick ==
    /\ tagsApi.now < MaxClock * TickMs
    /\ tagsApi' = [tagsApi EXCEPT !.now = tagsApi.now + TickMs]
    /\ UNCHANGED <<mirror, syncVars, stockVars, modalVars>>
    /\ UNCHANGED <<refresh, calc, remoteTags, missingItems, session>>

\* A tag is created or removed on Clover.
RemoteTagsChange ==
    /\ \E l \in RemoteTagLists \ {tagsApi.remote} :
          tagsApi' = [tagsApi EXCEPT !.remote = l]
    /\ UNCHANGED <<mirror, syncVars, stockVars, modalVars>>
    /\ UNCHANGED <<refresh, calc, remoteTags, missingItems, session>>

\* lines 10-24: a request arrives; a valid cache answers it, otherwise the
\* handler awaits fetchTags.  seen records the fills made before the arrival.
TagsGet ==
    /\ Len(tagsApi.reqs) < MaxTagRequests
    /\ LET now == tagsApi.now
           hit == CacheValid(tagsApi.tagsCache, now)
           req == [arrived |-> now, seen |-> tagsApi.fills,
                   pc |-> IF hit THEN "done" ELSE "fetchTags",
                   cached |-> hit,
                   tags |-> IF hit THEN tagsApi.tagsCache.data ELSE <<>>]
       IN tagsApi' = [tagsApi EXCEPT !.reqs = Append(tagsApi.reqs, req)]
    /\ UNCHANGED <<mirror, syncVars, stockVars, modalVars>>
    /\ UNCHANGED <<refresh, calc, remoteTags, missingItems, session>>

\* lines 24-35: fetchTags returns; the cache is replaced, stamped with the
\* arrival time of this request.
TagsGetFetched ==
    /\ \E i \in 1..Len(tagsApi.reqs) :
          /\ tagsApi.reqs[i].pc = "fetchTags"
          /\ \E tags \in FetchTagsResults(tagsApi.remote) :
                LET fill == [filled |-> TRUE, data |-> tags,
                             timestamp |-> tagsApi.reqs[i].arrived]
                IN tagsApi' = [tagsApi EXCEPT
                      !.tagsCache = fill,
                      !.fills = tagsApi.fills \cup {fill},
                      !.reqs[i].pc = "done",
                      !.reqs[i].tags = tags]
    /\ UNCHANGED <<mirror, syncVars, stockVars, modalVars>>
    /\ UNCHANGED <<refresh, calc, remoteTags, missingItems, session>>

(***************************************************************************)
(* POST /api/inventory/add-tag, step by step (add-tag/route.ts)            *)
(***************************************************************************)
\* The handler at rest; catalog lists the id and sku of the items Clover
\* holds, in the order fetchAllItems returns them, tagged the ids of those
\* carrying the tag.
IdleRefresh ==
    [pc |-> "idle", catalog |-> <<>>, tagged |-> {}, tagId |-> "",
     itemId |-> "", added |-> FALSE, items |-> <<>>, idx |-> 0,
     existingBySku |-> {}, upserted |-> {}, error |-> Null,
     response |-> Null]

\* The items of the catalog as fetchAllItems returns them, with the tags
\* expanded.
CatalogOnClover(r) ==
    [i \in 1..Len(r.catalog) |->
        [CloverItem(r.catalog[i].id, r.catalog[i].sku) EXCEPT
            !.tags = IF r.catalog[i].id \in r.tagged THEN {"T1"} ELSE {}]]

\* An item as tags/{tagId}/items?expand=itemStock returns it: without the
\* tags expansion.
WithoutTags(item) == [f \in DOMAIN item \ {"tags"} |-> item[f]]

\* clover.ts lines 434-473: the items of the catalog carrying the tag
ItemsByTag(r) ==
    LET all == CatalogOnClover(r)
    IN [i \in 1..Len(SelectSeq(all, LAMBDA item : item.id \in r.tagged)) |->
          WithoutTags(SelectSeq(all, LAMBDA item : item.id \in r.tagged)[i])]

\* After item idx: the next item, or the response.
NextRefreshPc(items, idx) ==
    IF idx < Len(items) THEN "findBySku" ELSE "respond"

\* lines 98-102 and 105-112
RefreshOk == [status |-> 200, success |-> TRUE,
              message |-> "Tag added successfully and items refreshed"]
RefreshError == [status |-> 500, success |-> FALSE,
                 message |-> "Failed to add tag to item"]

\* lines 9-25: a request with itemId and tagId arrives; addTagToItem is
\* called.  The handler serves one request in a behaviour.
RefreshStart ==
    /\ refresh.pc = "idle"
    /\ \E i \in 1..Len(refresh.catalog) :
          refresh' = [refresh EXCEPT
              !.pc = "addTag", !.itemId = refresh.catalog[i].id,
              !.tagId = "T1"]
    /\ UNCHANGED <<mirror, syncVars, stockVars, modalVars>>
    /\ UNCHANGED <<calc, tagsApi, remoteTags, missingItems, session>>

\* line 25: Clover takes the association
RefreshTagAdded ==
    /\ refresh.pc = "addTag"
    /\ refresh' = [refresh EXCEPT
          !.pc = "fetch",
          !.added = refresh.itemId \notin refresh.tagged,
          !.tagged = refresh.tagged \cup {refresh.itemId}]
    /\ UNCHANGED <<mirror, syncVars, stockVars, modalVars>>
    /\ UNCHANGED <<calc, tagsApi, remoteTags, missingItems, session>>

\* lines 27-30: fetchItemsByTag returns the items of the tag
RefreshFetch ==
    /\ refresh.pc = "fetch"
    /\ LET items == ItemsByTag(refresh)
       IN refresh' = [refresh EXCEPT
             !.items = items, !.idx = IF Len(items) > 0 THEN 1 ELSE 0,
             !.pc = NextRefreshPc(items, 0)]
    /\ UNCHANGED <<mirror, syncVars, stockVars, modalVars>>
    /\ UNCHANGED <<calc, tagsApi, remoteTags, missingItems, session>>

\* lines 38-49: findUnique by id (result unused), findUnique by sku
RefreshFindBySku ==
    /\ refresh.pc = "findBySku"
    /\ LET item == refresh.items[refresh.idx]
           found == IF ~Falsy(item.sku) THEN FindBySku(mirror, item.sku) ELSE {}
           stale == {id \in found : id # item.id}
       IN refresh' = [refresh EXCEPT
             !.existingBySku = stale,
             !.pc = IF stale # {} THEN "deleteStale" ELSE "upsert"]
    /\ UNCHANGED <<mirror, syncVars, stockVars, modalVars>>
    /\ UNCHANGED <<calc, tagsApi, remoteTags, missingItems, session>>

\* lines 49-53: delete the row that owns the sku, by its id; delete throws
\* when the row is no longer there
RefreshDeleteStale ==
    /\ refresh.pc = "deleteStale"
    /\ IF \E id \in refresh.existingBySku : mirror[id] = NoRow
       THEN /\ refresh' = [refresh EXCEPT !.pc = "catch",
                                          !.error = NotFoundError]
            /\ UNCHANGED mirror
       ELSE /\ mirror' = [id \in ItemIds |->
                    IF id \in refresh.existingBySku THEN NoRow ELSE mirror[id]]
            /\ refresh' = [refresh EXCEPT !.existingBySku = {},
                                          !.pc = "upsert"]
    /\ UNCHANGED <<syncVars, stockVars, modalVars>>
    /\ UNCHANGED <<calc, tagsApi, remoteTags, missingItems, session>>

\* lines 56-93: upsert keyed by id; the unique index on sku may reject it
RefreshUpsert ==
    /\ refresh.pc = "upsert"
    /\ LET item == refresh.items[refresh.idx]
           row == UpsertRow(item)
       IN IF SkuKeyViolated(mirror, item.id, row)
          THEN /\ refresh' = [refresh EXCEPT !.pc = "catch", !.error = DbError]
               /\ UNCHANGED mirror
          ELSE /\ mirror' = [mirror EXCEPT ![item.id] = row]
               /\ refresh' = [refresh EXCEPT
                     !.idx = refresh.idx + 1,
                     !.upserted = refresh.upserted \cup {item.id},
                     !.pc = NextRefreshPc(refresh.items, refresh.idx)]
    /\ UNCHANGED <<syncVars, stockVars, modalVars>>
    /\ UNCHANGED <<calc, tagsApi, remoteTags, missingItems, session>>

\* lines 103-113: an exception of the loop is answered 500
RefreshCatch ==
    /\ refresh.pc = "catch"
    /\ refresh' = [refresh EXCEPT !.pc = "done", !.response = RefreshError]
    /\ UNCHANGED <<mirror, syncVars, stockVars, modalVars>>
    /\ UNCHANGED <<calc, tagsApi, remoteTags, missingItems, session>>

\* lines 96-102: every item is upserted; the handler answers success
RefreshRespond ==
    /\ refresh.pc = "respond"
    /\ refresh' = [refresh EXCEPT !.pc = "done", !.response = RefreshOk]
    /\ UNCHANGED <<mirror, syncVars, stockVars, modalVars>>
    /\ UNCHANGED <<calc, tagsApi, remoteTags, missingItems, session>>

\* POST /api/sync against the catalog Clover holds now.
SyncFetchCatalog == SyncFetchFrom({CatalogOnClover(refresh)})

(***************************************************************************)
(* Inputs of the interleaving                                              *)
(***************************************************************************)
RaceSkus == {<<"1", "1", "1">>, <<"2", "2", "2">>}
Absent == <<"<absent>">>

\* What Clover holds while the two handlers run: A with the first sku, B
\* with the second, C without one.
RaceCatalog ==
    << [id |-> "A", sku |-> <<"1", "1", "1">>],
       [id |-> "B", sku |-> <<"2", "2", "2">>],
       [id |-> "C", sku |-> NoSku] >>

\* The mirrors earlier syncs can have left, Clover having held other items
\* and other skus then: every id absent or present with a sku or none, no
\* sku on two rows.
RaceMirrors ==
    {[id \in ItemIds |->
        IF f[id] = Absent THEN NoRow ELSE UpsertRow(CloverItem(id, f[id]))] :
     f \in {g \in [ItemIds -> RaceSkus \cup {NoSku, Absent}] :
               \A a, b \in ItemIds :
                   (a # b /\ g[a] \in RaceSkus) => g[a] # g[b]}}

\* The ids carrying the tag before the add-tag request.
RaceTagged == {{"A"}, {"A", "B"}}

\* The sync runs that ended before: all but the last the bound allows.
EarlierSyncLogs ==
    [k \in 1..(MaxSyncs - 1) |->
        [status |-> "success", endTime |-> "set", itemsFetched |-> 0,
         error |-> Null, writes |-> 1]]

\* A CSV naming A and B by sku and C by code.
RaceCsv ==
    << CsvRow(<<"1", "1", "1">>, <<>>, <<"2">>),
       CsvRow(<<"2", "2", "2">>, <<>>, <<"2">>),
       CsvRow(<<"3", "3", "3">>, <<>>, <<"2">>) >>

(***************************************************************************)
(* Specifications                                                          *)
(***************************************************************************)
SyncIdle == syncLogs = <<>> /\ sync = IdleSync /\ hist = NoHist

StockIdle ==
    /\ remoteStock = InitialRemoteStock
    /\ client = IdleClient
    /\ route = IdleRoute
    /\ bulk = IdleBulk
    /\ obs = NoObs

ModalClosed ==
    /\ modal = ClosedModal
    /\ csvData = <<>>
    /\ cloverItems = <<>>
    /\ matchedItems = <<>>
    /\ unmatchedItems = <<>>

\* No tags request yet, no tag association known, nothing listed as missing.
RestIdle ==
    /\ refresh = IdleRefresh
    /\ tagsApi = IdleTags
    /\ remoteTags = NoRemoteTags
    /\ missingItems = <<>>

\* Full sync: the mirror starts empty, as the migration leaves it.
Init ==
    /\ mirror = [id \in ItemIds |-> NoRow]
    /\ SyncIdle
    /\ calc = NoCalc
    /\ StockIdle
    /\ RestIdle
    /\ session = IdleSession
    /\ ModalClosed

Next ==
    \/ SyncStart
    \/ SyncFetch
    \/ SyncFindBySku
    \/ SyncDeleteStale
    \/ SyncUpsert
    \/ SyncFindMany
    \/ SyncDeleteMany
    \/ SyncLogSuccess
    \/ SyncRaise
    \/ SyncCatch
    \/ SyncReturn

Spec == Init /\ [][Next]_vars

\* update-stock called directly, over a mirror some sync left.
InitApi ==
    /\ mirror \in StockMirrors
    /\ SyncIdle
    /\ calc = NoCalc
    /\ StockIdle
    /\ RestIdle
    /\ session = IdleSession
    /\ ModalClosed

NextApi ==
    \/ ApiPost
    \/ RouteValidate
    \/ ClientResponse
    \/ ClientRetry
    \/ RouteMirrorUpdate
    \/ RouteCatch
    \/ ApiReceive

SpecApi == InitApi /\ [][NextApi]_vars

\* The modal with the tag's items fetched and a CSV loaded: matching, then
\* the bulk apply.
InitBulk ==
    /\ mirror \in StockMirrors
    /\ SyncIdle
    /\ calc = NoCalc
    /\ StockIdle
    /\ RestIdle
    /\ session = IdleSession
    /\ modal \in {[m EXCEPT !.matchPending = TRUE] : m \in BulkSelections}
    /\ csvData \in BulkCsvs
    /\ cloverItems = BulkItems
    /\ matchedItems = <<>>
    /\ unmatchedItems = <<>>

NextBulk ==
    \/ AutoMatch
    \/ AutoMatchSkipped
    \/ BulkStart
    \/ BulkSend
    \/ BulkFetchFailed
    \/ RouteValidate
    \/ ClientResponse
    \/ ClientRetry
    \/ RouteMirrorUpdate
    \/ RouteCatch
    \/ BulkReceive
    \/ BulkFinish

SpecBulk == InitBulk /\ [][NextBulk]_vars

\* The modal with a tag and a CSV chosen, the tag's items on their way.
InitMatch ==
    /\ mirror = [id \in ItemIds |-> NoRow]
    /\ SyncIdle
    /\ calc = NoCalc
    /\ StockIdle
    /\ RestIdle
    /\ session = [IdleSession EXCEPT !.loading = TRUE]
    /\ modal \in {[m EXCEPT !.fetchPending = TRUE] : m \in ModalSelections}
    /\ csvData \in MatchCsvs
    /\ cloverItems = <<>>
    /\ matchedItems = <<>>
    /\ unmatchedItems = <<>>

NextMatch ==
    \/ FetchItemsByTagDone
    \/ FetchItemsByTagFailed
    \/ AutoMatch
    \/ AutoMatchSkipped
    \/ HandleTagChange

SpecMatch == InitMatch /\ [][NextMatch]_vars


\* One call of calculateStock, for every rule and row.
InitRules ==
    /\ mirror = [id \in ItemIds |-> NoRow]
    /\ SyncIdle
    /\ StockIdle
    /\ RestIdle
    /\ session = IdleSession
    /\ ModalClosed
    /\ calc \in {CalculateStockArgs(name, row, stockColumnName) :
                    name \in RuleNames, row \in RuleRows,
                    stockColumnName \in {"", "Qty"}}

NextRules == CalculateStockCall

SpecRules == InitRules /\ [][NextRules]_vars

\* One call of fuzzyMatchUPC, for every pair of identifiers.
InitFuzzy ==
    /\ mirror = [id \in ItemIds |-> NoRow]
    /\ SyncIdle
    /\ StockIdle
    /\ RestIdle
    /\ session = IdleSession
    /\ ModalClosed
    /\ calc \in {FuzzyMatchArgs(a, b) :
                    a \in UpcTexts(MaxUpcLen), b \in UpcTexts(MaxUpcLen - 1)}

NextFuzzy == FuzzyMatchCall

SpecFuzzy == InitFuzzy /\ [][NextFuzzy]_vars

\* GET /api/tags, the requests overlapping, the clock running.
InitTags ==
    /\ mirror = [id \in ItemIds |-> NoRow]
    /\ SyncIdle
    /\ StockIdle
    /\ ModalClosed
    /\ calc = NoCalc
    /\ RestIdle
    /\ session = IdleSession

NextTags ==
    \/ TagsTick
    \/ RemoteTagsChange
    \/ TagsGet
    \/ TagsGetFetched

SpecTags == InitTags /\ [][NextTags]_vars

\* The modal with a tag and a CSV chosen and the tag's items fetched; the
\* mirror as a sync left it, its tags not necessarily those Clover holds
\* now.
InitResolve ==
    /\ mirror \in ResolveMirrors
    /\ SyncIdle
    /\ StockIdle
    /\ calc = NoCalc
    /\ refresh = IdleRefresh
    /\ tagsApi = IdleTags
    /\ missingItems = <<>>
    /\ remoteTags \in {[NoRemoteTags EXCEPT !["T1"] = ids] :
                          ids \in ResolveTagged}
    /\ cloverItems = TagList(remoteTags["T1"])
    /\ csvData \in ResolveCsvs
    /\ modal \in {[m EXCEPT !.matchPending =
                        AutoMatchReady(m, csvData, cloverItems)] :
                    m \in ResolveSelections}
    /\ session = [IdleSession EXCEPT
                     !.findPending = FindReady(modal, csvData, cloverItems)]
    /\ matchedItems = <<>>
    /\ unmatchedItems = <<>>

NextResolve ==
    \/ FindTimerFire
    \/ FindMissingDone
    \/ FindMissingFailed
    \/ AddTagClick
    \/ AddTagDone
    \/ AddTagFailed
    \/ AddTagRefetchDone
    \/ AddTagRefetchFailed
    \/ HandleMethodChange

SpecResolve == InitResolve /\ [][NextResolve]_vars

\* The modal with a tag chosen and its items fetched, no CSV yet.
InitUpload ==
    /\ mirror = ResolveMirror(ItemIds, {})
    /\ SyncIdle
    /\ StockIdle
    /\ calc = NoCalc
    /\ refresh = IdleRefresh
    /\ tagsApi = IdleTags
    /\ missingItems = <<>>
    /\ remoteTags = [NoRemoteTags EXCEPT !["T1"] = {"A"}]
    /\ cloverItems = TagList(remoteTags["T1"])
    /\ csvData = <<>>
    /\ modal = [ClosedModal EXCEPT !.selectedTagId = "T1"]
    /\ session = IdleSession
    /\ matchedItems = <<>>
    /\ unmatchedItems = <<>>

NextUpload ==
    \/ HandleFileUpload
    \/ ParseComplete
    \/ AutoMatch
    \/ FindTimerFire
    \/ FindMissingDone

SpecUpload == InitUpload /\ [][NextUpload]_vars

\* The modal in upc mode with a CSV loaded and the tag's items fetched: one
\* matching pass over lists in which skus and codes repeat.
InitFind ==
    /\ mirror = [id \in ItemIds |-> NoRow]
    /\ SyncIdle
    /\ StockIdle
    /\ calc = NoCalc
    /\ RestIdle
    /\ session = IdleSession
    /\ modal = [OpenModal("upc", "UPC", "Name", "Qty") EXCEPT
                    !.matchPending = TRUE]
    /\ csvData \in FindCsvs
    /\ cloverItems \in FindItemLists
    /\ matchedItems = <<>>
    /\ unmatchedItems = <<>>

NextFind == AutoMatch

SpecFind == InitFind /\ [][NextFind]_vars

\* One call of fetchAllItems, for every size of the remote collection.
InitPages ==
    /\ mirror = [id \in ItemIds |-> NoRow]
    /\ SyncIdle
    /\ StockIdle
    /\ RestIdle
    /\ session = IdleSession
    /\ ModalClosed
    /\ calc \in {FetchAllItemsCall(size) : size \in CollectionSizes}

NextPages ==
    \/ FetchPageDone
    \/ FetchPageFailed

\* A request in flight is answered: the page arrives or the request fails.
SpecPages == InitPages /\ [][NextPages]_vars /\ WF_vars(NextPages)

\* One full sync and one add-tag request against the same catalog, their
\* steps interleaved, over a mirror earlier syncs left; the modal holds the
\* tag's items and a CSV, its matching pass due.
InitRace ==
    /\ mirror \in RaceMirrors
    /\ syncLogs = EarlierSyncLogs
    /\ sync = IdleSync
    /\ hist = NoHist
    /\ StockIdle
    /\ calc = NoCalc
    /\ tagsApi = IdleTags
    /\ remoteTags = NoRemoteTags
    /\ missingItems = <<>>
    /\ session = IdleSession
    /\ refresh \in {[IdleRefresh EXCEPT !.catalog = RaceCatalog,
                                        !.tagged = tagged] :
                       tagged \in RaceTagged}
    /\ modal = [OpenModal("upc", "UPC", "Name", "Qty") EXCEPT
                    !.matchPending = TRUE]
    /\ csvData = RaceCsv
    /\ cloverItems = PoolItems
    /\ matchedItems = <<>>
    /\ unmatchedItems = <<>>

NextRace ==
    \/ SyncStart
    \/ SyncFetchCatalog
    \/ SyncFindBySku
    \/ SyncDeleteStale
    \/ SyncUpsert
    \/ SyncFindMany
    \/ SyncDeleteMany
    \/ SyncLogSuccess
    \/ SyncCatch
    \/ RefreshStart
    \/ RefreshTagAdded
    \/ RefreshFetch
    \/ RefreshFindBySku
    \/ RefreshDeleteStale
    \/ RefreshUpsert
    \/ RefreshCatch
    \/ RefreshRespond
    \/ AutoMatch

SpecRace == InitRace /\ [][NextRace]_vars

(***************************************************************************)
(* Full sync: claims                                                       *)
(***************************************************************************)
SyncSucceeded == sync.pc = "respond" /\ sync.response.success
SyncFailed == sync.pc = "respond" /\ ~sync.response.success

\* C1: after a sync that ends with status success, the ids in the mirror are
\* exactly the ids of the fetched remote set.
C1_MirrorIsRemote ==
    SyncSucceeded => MirrorIds = RemoteIds(sync.items)

\* No two mirror rows share a non-null sku.
SkuUnique(m) ==
    \A a, b \in ItemIds :
        (a # b /\ m[a] # NoRow /\ m[b] # NoRow /\ m[a].sku # NullSku)
            => m[a].sku # m[b].sku

\* C2: no two mirror rows share a non-null sku in any state; and when the
\* mirror held X with sku s and the sync delivers Y (another id, and not X
\* itself) with sku s, then after the sync X is absent and Y is present
\* with sku s.
C2_SkuCollision ==
    /\ SkuUnique(mirror)
    /\ SyncSucceeded =>
         \A x \in ItemIds : \A i \in 1..Len(sync.items) :
            LET y == sync.items[i] IN
            ( /\ hist.before[x] # NoRow
              /\ ~Falsy(y.sku)
              /\ hist.before[x].sku = y.sku
              /\ y.id # x
              /\ x \notin RemoteIds(sync.items) )
            => ( /\ mirror[x] = NoRow
                 /\ mirror[y.id] # NoRow
                 /\ mirror[y.id].sku = y.sku )

\* C3: when a step of the sync raises, the run is marked error with the
\* exception message, the caller gets a failure response, and every row
\* upserted before the failure is still in the mirror.
C3_FailureKeepsUpserts ==
    SyncFailed =>
        /\ syncLogs[sync.logId].status = "error"
        /\ syncLogs[sync.logId].error = sync.error
        /\ sync.response.status = 500
        /\ sync.response.message = sync.error
        /\ \A id \in hist.upserted : mirror[id] # NoRow

Terminal(log) == log.status \in {"success", "error"}

C4State ==
    \A i \in 1..Len(syncLogs) :
        LET log == syncLogs[i] IN
        /\ log.status \in {"in_progress", "success", "error"}
        /\ log.status = "in_progress" <=> (log.endTime = Null /\ log.writes = 0)
        /\ Terminal(log) <=> (log.endTime # Null /\ log.writes = 1)
        /\ (sync.pc \in {"respond", "idle"} \/ sync.logId # i) => Terminal(log)

C4Step ==
    /\ Len(syncLogs') >= Len(syncLogs)
    /\ \A i \in 1..Len(syncLogs) :
          Terminal(syncLogs[i]) => syncLogs'[i] = syncLogs[i]
    /\ Len(syncLogs') > Len(syncLogs) =>
          /\ Len(syncLogs') = Len(syncLogs) + 1
          /\ syncLogs'[Len(syncLogs')].status = "in_progress"
          /\ syncLogs'[Len(syncLogs')].endTime = Null

FetchedIds == [i \in 1..Len(sync.items) |-> sync.items[i].id]

C19_SyncOrdering ==
    sync.pc # "idle" =>
        /\ Len(hist.order) <= Len(sync.items)
        /\ hist.order = SubSeq(FetchedIds, 1, Len(hist.order))
        /\ sync.pc \in {"findMany", "deleteMany", "logSuccess"} \/ hist.swept
              => hist.order = FetchedIds
        /\ hist.deleted \cap RemoteIds(sync.items) = {}

\* A sync of two items has swept a mirror row that the remote no longer has.
C19_Witness ==
    /\ hist.swept
    /\ Len(sync.items) = 2
    /\ hist.deleted # {}

(***************************************************************************)
(* Bulk apply and the stock write path                                     *)
(***************************************************************************)
BulkRunning == bulk.pc \in {"send", "await"}
BulkEnded == bulk.pc \in {"finish", "done"}

\* The rows attempted so far are rows 1..n of the list, once each, in order.
AttemptedInOrder == obs.attempts = [k \in 1..Len(obs.attempts) |-> k]

C5State ==
    /\ obs.inFlight <= 1
    /\ AttemptedInOrder
    /\ Len(bulk.successes) = bulk.successCount
    /\ Len(bulk.errors) = bulk.errorCount
    /\ bulk.pc # "idle" => bulk.rows = matchedItems
    /\ bulk.pc = "send" =>
          /\ Len(obs.attempts) = bulk.i - 1
          /\ bulk.successCount + bulk.errorCount = bulk.i - 1
    /\ bulk.pc = "await" =>
          /\ Len(obs.attempts) = bulk.i
          /\ bulk.successCount + bulk.errorCount = bulk.i - 1
    /\ BulkEnded =>
          /\ obs.inFlight = 0
          /\ Len(obs.attempts) = Len(bulk.rows)
          /\ bulk.successCount + bulk.errorCount = Len(bulk.rows)

\* A row that fails adds one failure entry for its item, and the batch goes
\* on with the next row when there is one.
C5Step ==
    (BulkRunning /\ bulk'.errorCount # bulk.errorCount) =>
        /\ bulk'.errorCount = bulk.errorCount + 1
        /\ bulk'.successCount = bulk.successCount
        /\ bulk'.errors[bulk'.errorCount].itemId = bulk.rows[bulk.i].item.id
        /\ bulk'.i = bulk.i + 1
        /\ bulk.i < Len(bulk.rows) => bulk'.pc = "send"

\* C5: every row of the confirmed Matched list is attempted exactly once, in
\* list order, with at most one request in flight; a failed row is recorded
\* and the next row is still attempted, and when the batch ends
\* successCount + errorCount is the number of Matched rows.
C5_RowLevelFailures == []C5State /\ [][C5Step]_vars

\* C5 witness: a batch of two rows has ended; the first row failed, the
\* second succeeded.
C5_Witness ==
    /\ bulk.pc = "done"
    /\ Len(bulk.rows) = 2
    /\ bulk.errorCount = 1
    /\ bulk.successCount = 1
    /\ bulk.errors[1].itemId = bulk.rows[1].item.id
    /\ bulk.successes[1].itemId = bulk.rows[2].item.id

\* C6: when the batch has ended and for every row the remote answered 429
\* at most three times and then 2xx, every row is reported a success and
\* the mirror's stockCount of every row's item is the row's newStock.
C6_TransientRateLimit ==
    (/\ bulk.pc = "done"
     /\ \A k \in 1..Len(obs.rowStatuses) : obs.rowStatuses[k]) =>
        /\ bulk.errorCount = 0
        /\ bulk.successCount = Len(bulk.rows)
        /\ \A k \in 1..Len(bulk.rows) :
              /\ mirror[bulk.rows[k].item.id] # NoRow
              /\ mirror[bulk.rows[k].item.id].stockCount = bulk.rows[k].newStock

\* The requests of the call observed: one per response, and one more while
\* a request is in flight.
RequestsSent == Len(obs.statuses) + (IF client.pc = "request" THEN 1 ELSE 0)

\* The call observed has failed: updateItemStock threw, or the handler has
\* already answered for it.
CallFailed ==
    \/ client.pc = "error"
    \/ (client.pc = "idle" /\ route.pc = "respond" /\ route.response.status = 500)

CallSucceeded ==
    \/ client.pc = "ok"
    \/ (client.pc = "idle" /\ route.pc = "respond")

\* C7: one call of updateItemStock sends at most 4 requests; before the
\* 1st, 2nd and 3rd retry it waits 2s, 4s and 6s; every request but the
\* last was answered 429; a 4th 429 fails the call and a 2xx ends it.
C7_RetryBound ==
    LET n == Len(obs.statuses) IN
    /\ RequestsSent <= 4
    /\ Len(obs.waits) <= 3
    /\ obs.waits = SubSeq(<<2000, 4000, 6000>>, 1, Len(obs.waits))
    /\ \A k \in 1..(n - 1) : obs.statuses[k] = 429
    /\ client.pc = "request" => RequestsSent = Len(obs.waits) + 1
    /\ client.pc = "backoff" => RequestsSent = Len(obs.waits)
    /\ (n = 4 /\ obs.statuses[4] = 429) => CallFailed
    /\ (n > 0 /\ ResponseOk(obs.statuses[n])) =>
          (CallSucceeded /\ RequestsSent = n)

\* C7 witness: four 429 in a row; the call has failed after waiting 2s, 4s
\* and 6s.
C7_Witness ==
    /\ obs.statuses = <<429, 429, 429, 429>>
    /\ obs.waits = <<2000, 4000, 6000>>
    /\ client.pc = "error"

\* What tells a 400 of the remote, and a 500, from the other errors.
IsBadRequest(message) ==
    message[1] = "Bad Request: Invalid stock count or item ID."
IsServerError(message) ==
    message[1] = "Clover API server error. Please try again later."

\* C8: a 400 or a 500 of the remote is the last response of the call, the
\* call fails on it without another request, and the error of a 400, of a
\* 500 and of any other failure are told apart.
C8_PermanentErrors ==
    LET n == Len(obs.statuses) IN
    /\ \A k \in 1..n :
          obs.statuses[k] \in {400, 500} =>
              /\ k = n
              /\ RequestsSent = n
              /\ CallFailed
    /\ client.pc = "error" =>
          /\ IsBadRequest(client.error) <=> obs.statuses[n] = 400
          /\ IsServerError(client.error) <=> obs.statuses[n] = 500
          /\ ~(IsBadRequest(client.error) /\ IsServerError(client.error))

\* C8 witness: a 500 after one retried 429 has failed the call.
C8_Witness ==
    /\ obs.statuses = <<429, 500>>
    /\ client.pc = "error"
    /\ IsServerError(client.error)

\* The bodies the validation is to reject.
MissingItemId(body) == body.itemId.t = "undefined"
MissingStockCount(body) == body.stockCount.t = "undefined"
NonNumericStockCount(body) == body.stockCount.t \in {"null", "string"}
NegativeStockCount(body) ==
    body.stockCount.t = "number" /\ body.stockCount.v < 0

Rejectable(body) ==
    /\ body.object
    /\ \/ MissingItemId(body)
       \/ MissingStockCount(body)
       \/ NonNumericStockCount(body)
       \/ NegativeStockCount(body)

C27_FaithfulFailure ==
    (route.pc = "respond" /\ ~route.response.ok) =>
        remoteStock = obs.remoteBefore

(***************************************************************************)
(* Matching                                                                *)
(***************************************************************************)
\* The identifier of a row: the value of the identifier column, trimmed.
RowIdentifier(row) ==
    LET raw == Field(row, IdColumn(modal))
    IN IF raw = Undefined THEN <<>> ELSE Trim(raw)

HasIdentifier(row) == RowIdentifier(row) # <<>>

\* The entries of list made of row i.
EntriesOf(list, i) == {k \in 1..Len(list) : list[k].idx = i}

InCsvOrder(list) ==
    \A j, k \in 1..Len(list) : j < k => list[j].idx < list[k].idx

\* Every row with an identifier is once in Matched or Unmatched, rows
\* without one are in neither, both lists are in CSV order, every entry
\* carries its row, and an Unmatched entry the identifier searched.
Partition ==
    /\ \A i \in 1..Len(csvData) :
          Cardinality(EntriesOf(matchedItems, i))
              + Cardinality(EntriesOf(unmatchedItems, i))
          = (IF HasIdentifier(csvData[i]) THEN 1 ELSE 0)
    /\ InCsvOrder(matchedItems)
    /\ InCsvOrder(unmatchedItems)
    /\ \A k \in 1..Len(matchedItems) :
          /\ matchedItems[k].idx \in 1..Len(csvData)
          /\ matchedItems[k].csvRow = csvData[matchedItems[k].idx]
    /\ \A k \in 1..Len(unmatchedItems) :
          /\ unmatchedItems[k].idx \in 1..Len(csvData)
          /\ unmatchedItems[k].csvRow = csvData[unmatchedItems[k].idx]
          /\ unmatchedItems[k].searchValue
                = RowIdentifier(unmatchedItems[k].csvRow)

\* The items of the selected tag have arrived, the identifier column is
\* chosen, and no matching pass is due.
MatchSettled ==
    /\ ~modal.fetchPending
    /\ ~modal.matchPending
    /\ modal.error = ""
    /\ IdColumn(modal) # ""

\* C10 as stated: for any CSV and any tag-scoped item list the Matched and
\* Unmatched lists partition the rows that have an identifier.
C10_AnyItemList == MatchSettled => Partition

\* C10: for any CSV and any tag-scoped item list that is not empty, the
\* Matched and Unmatched lists of a matching pass partition the rows that
\* have an identifier, in CSV order; rows with an empty or blank identifier
\* are in neither; an Unmatched entry carries the raw row and the
\* identifier searched.
C10_Partition ==
    modal.matchRan =>
        /\ Len(cloverItems) > 0
        /\ Len(csvData) > 0
        /\ Partition

\* C10 witness: a pass over three rows put the first in Matched, left the
\* second, which has no identifier, out, and put the third in Unmatched.
C10_Witness ==
    /\ modal.matchRan
    /\ MatchSettled
    /\ Len(csvData) = 3
    /\ ~HasIdentifier(csvData[2])
    /\ Len(matchedItems) = 1
    /\ matchedItems[1].idx = 1
    /\ Len(unmatchedItems) = 1
    /\ unmatchedItems[1].idx = 3

\* The positions in the item list whose trimmed sku, or trimmed code, is v.
SkuHits(v) ==
    {k \in 1..Len(cloverItems) :
        /\ cloverItems[k].sku # Undefined
        /\ Trim(cloverItems[k].sku) = v}
CodeHits(v) ==
    {k \in 1..Len(cloverItems) :
        /\ cloverItems[k].code # Undefined
        /\ Trim(cloverItems[k].code) = v}

Lowest(S) == CHOOSE k \in S : \A j \in S : k <= j

\* The position a row with identifier v is to be matched to, or 0: the
\* first sku hit when there is one, else the first code hit.
ExpectedPosition(v) ==
    IF SkuHits(v) # {} THEN Lowest(SkuHits(v))
    ELSE IF CodeHits(v) # {} THEN Lowest(CodeHits(v))
    ELSE 0

\* C23: in upc mode a row is matched to the first item of the tag-scoped
\* list whose trimmed sku equals the row's trimmed identifier; the code is
\* consulted only when no item of the whole list matches by sku, and then
\* the first item whose trimmed code equals the identifier is chosen; a
\* row is Unmatched only when neither a sku nor a code equals it.
C23_SkuBeforeCode ==
    (modal.matchRan /\ modal.referenceMethod = "upc") =>
        /\ \A k \in 1..Len(matchedItems) :
              LET v == RowIdentifier(matchedItems[k].csvRow)
              IN /\ ExpectedPosition(v) # 0
                 /\ matchedItems[k].item = cloverItems[ExpectedPosition(v)]
        /\ \A k \in 1..Len(unmatchedItems) :
              ExpectedPosition(RowIdentifier(unmatchedItems[k].csvRow)) = 0

\* C23 witness: the list holds first an item whose code is the identifier
\* and later an item whose sku is; the row was matched to the later one.
C23_Witness ==
    /\ modal.matchRan
    /\ modal.referenceMethod = "upc"
    /\ Len(matchedItems) >= 1
    /\ LET v == RowIdentifier(matchedItems[1].csvRow)
       IN /\ SkuHits(v) # {}
          /\ CodeHits(v) # {}
          /\ Lowest(CodeHits(v)) < Lowest(SkuHits(v))
          /\ Cardinality(SkuHits(v)) = 2
          /\ matchedItems[1].item = cloverItems[Lowest(SkuHits(v))]

(***************************************************************************)
(* Reconciliation engine                                                   *)
(***************************************************************************)
\* The delta of a row under the rule selected in the modal.
RuleDelta(row) ==
    CalculateStock(modal.selectedVendorConfig, row,
        IF modal.selectedVendorConfig = "default" THEN modal.stockColumn
        ELSE "")

Additive(entry) ==
    /\ entry.calculatedStock = RuleDelta(entry.csvRow)
    /\ entry.currentStock = ActualStockCount(entry.item)
    /\ entry.newStock = entry.currentStock + entry.calculatedStock

\* The request of the bulk apply that the handler holds.
BulkRequestHeld == bulk.pc = "await" /\ route.caller = "bulk"

\* C11: every Matched entry has delta = calculateStock of the selected rule
\* on its row, currentStock = the item's authoritative stock and
\* newStock = currentStock + delta, and the stockCount sent to update-stock
\* for a row is that newStock, for that row's item.
C11_Additive ==
    /\ \A k \in 1..Len(matchedItems) : Additive(matchedItems[k])
    /\ BulkRequestHeld =>
          /\ bulk.rows[bulk.i] = matchedItems[bulk.i]
          /\ route.body = ObjectBody(JString(matchedItems[bulk.i].item.id),
                                     JNumber(matchedItems[bulk.i].newStock))

\* C11 witness: the second row, for item A whose stock sub-resource says 0
\* and whose own stockCount says 4, is sent with newStock 0 + 2.
C11_Witness ==
    /\ BulkRequestHeld
    /\ bulk.i = 2
    /\ matchedItems[2].item = ItemA
    /\ matchedItems[2].currentStock = 0
    /\ matchedItems[2].calculatedStock = 2
    /\ route.body.stockCount = JNumber(2)

(***************************************************************************)
(* Vendor rules                                                            *)
(***************************************************************************)
RuleReturned == calc.op = "calculateStock" /\ calc.done

\* The column a rule reads its quantity from.
QuantityColumn ==
    CASE calc.name = "Vendor_Kehe" -> "ShipQuantity"
      [] calc.name = "Vendor_CoreMark" -> "Qty"
      [] calc.name = "Vendor_Walmart" -> "Quantity"
      [] OTHER -> calc.stockColumnName

\* The quantity field does not start, after white space and a sign, with a
\* digit.
Unparseable(text) == text # Undefined /\ text # <<>> /\ ParseInt(text) = {}

\* C12: every rule returns, for every row, an integer >= 0, and 0 when its
\* quantity field is unparseable.
C12_NonNegative ==
    RuleReturned =>
        /\ calc.result \in Nat
        /\ (QuantityColumn # "" /\ Unparseable(calc.row[QuantityColumn])) =>
              calc.result = 0

\* The integer a field holds, when it holds one.
IsInteger(text) == ParseInt(text) # {}
IntegerOf(text) == CHOOSE n \in ParseInt(text) : TRUE

BrokenCaseSet(row) ==
    \/ row["Broken Case"] \in {<<CheckMarkHeavy>>, <<CheckMark>>}
    \/ /\ row["Broken Case"] # Undefined
       /\ ToLowerCase(row["Broken Case"]) = <<"t", "r", "u", "e">>

CoreMarkReturned == RuleReturned /\ calc.name = "Vendor_CoreMark"

QtyRead(row) == IF IsInteger(row["Qty"]) THEN IntegerOf(row["Qty"]) ELSE 0
UnitSizeRead(row) ==
    IF IsInteger(row["Unit Size"]) /\ IntegerOf(row["Unit Size"]) # 0
    THEN IntegerOf(row["Unit Size"]) ELSE 1

FuzzyReturned == calc.op = "fuzzyMatchUPC" /\ calc.done

\* What is left of an identifier when its leading zeros are dropped.
RECURSIVE WithoutLeadingZeros(_)
WithoutLeadingZeros(text) ==
    IF text # <<>> /\ Head(text) = "0" THEN WithoutLeadingZeros(Tail(text))
    ELSE text

IsText(v) == v # NullSku /\ v # Undefined

\* C18: fuzzyMatchUPC(a, b) = fuzzyMatchUPC(b, a); it is false when a or b
\* normalizes to the empty string, and true when a and b, both with
\* something left after normalization, differ only by leading zeros.
C18_Symmetric ==
    FuzzyReturned =>
        /\ calc.result = FuzzyMatchUPC(calc.b, calc.a)
        /\ (NormalizeUPC(calc.a) = <<>> \/ NormalizeUPC(calc.b) = <<>>) =>
              ~calc.result
        /\ (/\ IsText(calc.a) /\ IsText(calc.b)
            /\ NormalizeUPC(calc.a) # <<>> /\ NormalizeUPC(calc.b) # <<>>
            /\ WithoutLeadingZeros(calc.a) = WithoutLeadingZeros(calc.b)) =>
              calc.result

\* C18 witness: "011" and "11" match.
C18_Witness ==
    /\ FuzzyReturned
    /\ calc.a = <<"0", "1", "1">>
    /\ calc.b = <<"1", "1">>
    /\ calc.result

(***************************************************************************)
(* C15: once a request has filled the cache with stamp t, every request    *)
(* that arrives less than CACHE_DURATION after t is answered with that     *)
(* list from the cache and calls no fetchTags.                             *)
(***************************************************************************)
C15_CacheWindow ==
    \A i \in 1..Len(tagsApi.reqs) :
        LET req == tagsApi.reqs[i]
        IN \A fill \in req.seen :
              /\ fill.timestamp <= req.arrived
              /\ req.arrived - fill.timestamp < CACHE_DURATION
              => req.cached /\ req.tags = fill.data

\* Clover's tag list is never empty here, so an empty list is what
\* fetchTags returns in place of a fetch that failed.
FromFailedFetch(tags) == tags = <<>>

\* C30: the empty list that stands for a failed tag fetch is not kept in the
\* cache: no request is answered from the cache with it, the next request
\* fetches again.
C30_NoFailedFill ==
    \A i \in 1..Len(tagsApi.reqs) :
        tagsApi.reqs[i].cached => ~FromFailedFetch(tagsApi.reqs[i].tags)

(***************************************************************************)
(* C13: the list a find-missing pass sets holds only mirror rows that do   *)
(* not carry the pass's tag and are not in the tag-scoped list the pass    *)
(* was given, each at most once; in upc mode every such row whose sku or   *)
(* code fuzzy-matches a non-blank CSV identifier is listed, in name mode   *)
(* every such row whose name contains a CSV name, letter case apart.       *)
(***************************************************************************)
\* The values of a column over the rows of a CSV that have it.
ColumnValues(csv, column) ==
    {Field(csv[i], column) : i \in 1..Len(csv)} \ {Undefined}

\* The list holds no id twice.
EachOnce(list) ==
    \A i \in 1..Len(list) : \A j \in 1..Len(list) :
        list[i].id = list[j].id => i = j

\* The mirror row m[id] matches a value of the CSV in the pass's mode.
NamedByCsv(pass, m, id) ==
    IF pass.sel.referenceMethod = "upc"
    THEN \E v \in ColumnValues(pass.csv, pass.sel.upcColumn) :
            /\ Trim(v) # <<>>
            /\ \/ FuzzyMatchUPC(Column(m[id].sku), v)
               \/ FuzzyMatchUPC(Column(m[id].code), v)
    ELSE \E v \in ColumnValues(pass.csv, pass.sel.nameColumn) :
            /\ v # <<>>
            /\ Includes(ToLowerCase(m[id].name), ToLowerCase(v))

\* The list is the one the claim describes for the pass over mirror m.
MissingTagList(pass, m, list) ==
    LET Candidate(id) ==
            /\ m[id] # NoRow
            /\ pass.sel.selectedTagId \notin m[id].tags
            /\ id \notin IdsOf(pass.items)
    IN /\ \A k \in 1..Len(list) : Candidate(list[k].id)
       /\ EachOnce(list)
       /\ \A id \in ItemIds :
             Candidate(id) /\ NamedByCsv(pass, m, id) => id \in IdsOf(list)

\* The step is the answer to the i-th pass in flight.
AnswersPass(i) ==
    /\ i \in 1..Len(session.finds)
    /\ session'.finds = Without(session.finds, i)
    /\ session'.lastFind = "ok"

C20_OnePassInFlight == Len(session.finds) <= 1

(***************************************************************************)
(* C14: when an add-tag flow ends after Clover took the association, the   *)
(* item is not in the MissingTag list and, in upc mode, every CSV row      *)
(* whose identifier equals the item's sku has a Matched entry.             *)
(***************************************************************************)
\* The step ends an add-tag flow whose association succeeded.
EndsAddTag ==
    /\ session.addTag.pc \in {"fetch", "find"}
    /\ session'.addTag.pc = "idle"

\* The rows of the flow's CSV whose identifier is the sku of the item.
RowsOfItem(flow) ==
    {i \in 1..Len(flow.csv) :
        /\ flow.sel.referenceMethod = "upc"
        /\ mirror[flow.itemId].sku # NullSku
        /\ Field(flow.csv[i], flow.sel.upcColumn) = mirror[flow.itemId].sku}

\* The flow's item has left the MissingTag list and its rows are Matched.
Resolved(flow) ==
    /\ flow.itemId \notin IdsOf(missingItems')
    /\ \A i \in RowsOfItem(flow) :
          \E k \in 1..Len(matchedItems') : matchedItems'[k].idx = i

C14_ResolutionLoop == [][EndsAddTag => Resolved(session.addTag)]_vars

\* The tags Clover holds for item id.
TagsOnClover(id) == {t \in TagIds : id \in remoteTags[t]}

\* The add-tag request of the flow is answered with success in this step.
AddTagSucceeds ==
    /\ session.addTag.pc = "post"
    /\ session'.addTag.pc = "fetch"

\* C28: after a successful add-tag of tag T to item I the mirror row of I
\* carries T, and every other row the call refreshed, if its tags were
\* those Clover holds, has the tags it had before.
C28_TagsConsistent ==
    [][AddTagSucceeds =>
          LET I == session.addTag.itemId
              T == session.addTag.sel.selectedTagId
          IN /\ mirror'[I] # NoRow
             /\ T \in mirror'[I].tags
             /\ \A id \in remoteTags[T] \ {I} :
                   (/\ mirror[id] # NoRow
                    /\ mirror[id].tags = TagsOnClover(id))
                   => (mirror'[id] # NoRow /\ mirror'[id].tags = mirror[id].tags)
      ]_vars

(***************************************************************************)
(* C16: when the parse of an uploaded file ends with errors, without rows  *)
(* or unread, a message is set and the rows, the headers and the column    *)
(* selections stay as they were; no row of such a file is ever in the      *)
(* session's rows, in a Matched or Unmatched entry or in a find-missing    *)
(* pass.                                                                   *)
(***************************************************************************)
\* The parse result the claim speaks of.
Rejected(file) ==
    file.unreadable \/ file.errors # <<>> \/ file.data = <<>>

\* The rows Papa.parse read from the files it reports errors for.
RejectedRows ==
    UNION {{file.data[i] : i \in 1..Len(file.data)} :
              file \in {f \in UploadFiles : Rejected(f)}}

\* The step is the end of the parse of the i-th file being parsed.
ParseEnds(i) ==
    /\ i \in 1..Len(modal.parsing)
    /\ modal'.parsing = Without(modal.parsing, i)

\* The rows, the headers and the columns are the ones before the step.
NothingIngested ==
    /\ csvData' = csvData
    /\ modal'.csvHeaders = modal.csvHeaders
    /\ modal'.upcColumn = modal.upcColumn
    /\ modal'.nameColumn = modal.nameColumn
    /\ modal'.stockColumn = modal.stockColumn

\* No row in use comes from a rejected file.
NoRejectedRowInUse ==
    /\ \A i \in 1..Len(csvData) : csvData[i] \notin RejectedRows
    /\ \A i \in 1..Len(matchedItems) :
          matchedItems[i].csvRow \notin RejectedRows
    /\ \A i \in 1..Len(unmatchedItems) :
          unmatchedItems[i].csvRow \notin RejectedRows
    /\ \A i \in 1..Len(session.finds) :
          \A j \in 1..Len(session.finds[i].csv) :
              session.finds[i].csv[j] \notin RejectedRows

C16_NoPartialIngestion ==
    /\ [][\A i \in 1..Len(modal.parsing) :
             ParseEnds(i) /\ Rejected(modal.parsing[i])
                => modal'.error # "" /\ NothingIngested]_vars
    /\ []NoRejectedRowInUse

\* The file with the short line was rejected after an earlier file had
\* been taken and matched.
C16_Witness ==
    /\ modal.csvFile = "broken.csv"
    /\ modal.parsing = <<>>
    /\ modal.error = "CSV parsing errors"
    /\ csvData # <<>>
    /\ matchedItems # <<>>

(***************************************************************************)
(* Bulk apply: pacing                                                      *)
(***************************************************************************)
\* The rows of the batch that have ended and have a row after them.
RowsWithSuccessor ==
    {k \in 1..Len(obs.pauses) : k < Len(bulk.rows)}

\* C21: between two successive update-stock calls of one batch a delay is
\* taken, whether the earlier call succeeded or failed: every row that has
\* ended and is not the last of the batch was followed by a wait.
C21_PacingDelay ==
    \A k \in RowsWithSuccessor : obs.pauses[k] # <<>>

\* The response arriving for the row in flight ends a call that the remote
\* answered 429 to the last request, the retries used up.
RateLimitExhausted ==
    /\ bulk.pc = "await"
    /\ route.pc = "respond"
    /\ Len(obs.statuses) = DefaultRetries + 1
    /\ obs.statuses[Len(obs.statuses)] = 429

\* C22: when a row fails because the remote answered 429 to the last retry
\* and another row follows, the applier takes the long pause before it
\* sends the next row.
C22_RateLimitPause ==
    [][(RateLimitExhausted /\ bulk.i < Len(bulk.rows) /\ bulk'.pc = "send")
          => obs'.pauses[Len(obs'.pauses)] = <<RateLimitPauseMs>>]_vars

(***************************************************************************)
(* Bulk apply: the whole batch                                             *)
(***************************************************************************)
RECURSIVE DeltaSum(_, _)
\* The sum of the deltas of the rows of the batch matched to item id.
DeltaSum(rows, id) ==
    IF rows = <<>> THEN 0
    ELSE (IF Head(rows).item.id = id THEN Head(rows).calculatedStock ELSE 0)
         + DeltaSum(Tail(rows), id)

\* The stock the tag fetch reported for item id.
StockAtTagFetch(id) ==
    CurrentStock(CHOOSE item \in {cloverItems[k] : k \in 1..Len(cloverItems)} :
                    item.id = id)

\* C26: after a bulk apply in which every row succeeded, the remote stock
\* of each item of the batch is its stock at tag-fetch time plus the sum of
\* the deltas of all the rows matched to it.
C26_BatchAdditive ==
    (bulk.pc = "done" /\ bulk.errorCount = 0) =>
        \A k \in 1..Len(bulk.rows) :
            LET id == bulk.rows[k].item.id
            IN remoteStock[id] = StockAtTagFetch(id) + DeltaSum(bulk.rows, id)

(***************************************************************************)
(* fetchAllItems                                                           *)
(***************************************************************************)
PagesCall == calc.op = "fetchAllItems"

\* The offsets requested so far are 0, 1000, 2000, ...
OffsetsInSteps ==
    \A k \in 1..Len(calc.requests) : calc.requests[k] = (k - 1) * PageLimit

\* The pages received are those requested, in order, each starting where
\* the one before ended.
PagesInOrder ==
    /\ \A k \in 1..Len(calc.allItems) :
          calc.allItems[k].from = calc.requests[k]
    /\ \A k \in 1..(Len(calc.allItems) - 1) :
          calc.allItems[k].from + calc.allItems[k].count
              = calc.allItems[k + 1].from

RECURSIVE ItemCount(_)
ItemCount(pages) ==
    IF pages = <<>> THEN 0 ELSE Head(pages).count + ItemCount(Tail(pages))

C25State ==
    PagesCall =>
        /\ OffsetsInSteps
        /\ PagesInOrder
        /\ calc.pc = "request" =>
              /\ Len(calc.requests) = Len(calc.allItems) + 1
              /\ \A k \in 1..Len(calc.allItems) :
                    calc.allItems[k].count = PageLimit
              /\ calc.result = NoList
        /\ calc.pc = "done" =>
              LET n == Len(calc.allItems) IN
              /\ n = Len(calc.requests)
              /\ \A k \in 1..(n - 1) : calc.allItems[k].count = PageLimit
              /\ calc.allItems[n].count < PageLimit
              /\ calc.result = Returned(calc.allItems)
              /\ ItemCount(calc.result.items) = calc.size
        /\ calc.pc = "failed" =>
              /\ calc.result = NoList
              /\ calc.error # <<>>

\* C25: fetchAllItems requests the pages at offsets 0, 1000, 2000, ...,
\* goes on while the page returned holds exactly 1000 items, stops at the
\* first shorter page and returns all pages in order, the whole
\* collection; a page request that fails ends the call with an error and
\* no list; and every call ends.
C25_Pagination == []C25State /\ <>(PagesCall => calc.pc \in {"done", "failed"})

\* C25 witness: a collection of exactly two full pages was returned after
\* three requests, the third page empty.
C25_Witness ==
    /\ PagesCall
    /\ calc.pc = "done"
    /\ calc.size = 2 * PageLimit
    /\ calc.requests = <<0, 1000, 2000>>
    /\ calc.allItems[3].count = 0

(***************************************************************************)
(* Full sync and add-tag refresh, interleaved                              *)
(***************************************************************************)
SyncEnded == sync.pc = "respond"
RefreshEnded == refresh.pc = "done"

\* Clover held the same catalog throughout: the add-tag request named an
\* item that carried the tag already.
RemoteUnchanged == ~refresh.added

\* No two rows of the mirror hold the same sku.
UniqueSkus ==
    \A a, b \in MirrorIds :
        (a # b /\ mirror[a].sku # NullSku) => mirror[a].sku # mirror[b].sku

CatalogIds == {refresh.catalog[i].id : i \in 1..Len(refresh.catalog)}

\* C29: one full sync and one add-tag refresh interleaved in any way
\* against an unchanged catalog both end without error, the mirror never
\* holds a sku on two rows, and when both have ended the ids of the mirror
\* are the ids Clover holds.
C29_RaceCommutes ==
    RemoteUnchanged =>
        /\ UniqueSkus
        /\ SyncEnded => sync.response.status = 200
        /\ RefreshEnded => refresh.response.status = 200
        /\ (SyncEnded /\ RefreshEnded) => MirrorIds = CatalogIds

(***************************************************************************)
(* The stock every read path uses                                          *)
(***************************************************************************)
\* The expanded counter when the expansion is present, else the root
\* counter when it is present, else 0.
AuthoritativeStock(item) ==
    CASE item.itemStock # {} -> CHOOSE n \in item.itemStock : TRUE
      [] item.itemStock = {} /\ item.stockCount # {} ->
            CHOOSE n \in item.stockCount : TRUE
      [] OTHER -> 0

\* The sync writes the row of its current item in this step.
SyncWrites == sync.pc = "upsert" /\ sync'.pc \notin {"upsert", "catch"}

\* The add-tag refresh writes the row of its current item in this step.
RefreshWrites ==
    refresh.pc = "upsert" /\ refresh'.pc \notin {"upsert", "catch"}

C24Step ==
    /\ SyncWrites =>
          LET item == sync.items[sync.idx]
          IN mirror'[item.id].stockCount = AuthoritativeStock(item)
    /\ RefreshWrites =>
          LET item == refresh.items[refresh.idx]
          IN mirror'[item.id].stockCount = AuthoritativeStock(item)

C24State ==
    \A k \in 1..Len(matchedItems) :
        matchedItems[k].currentStock = AuthoritativeStock(matchedItems[k].item)

\* C24: the full sync, the add-tag refresh and the matching all take for an
\* item's stock the expanded itemStock.stockCount when the expansion is
\* present, 0 included, the root stockCount only when it is absent, and 0
\* when both are absent.
C24_AuthoritativeStock == [][C24Step]_vars /\ []C24State

\* C24 witness: Clover reports root 4 and expanded 0 for A, root 5 alone
\* for B and nothing for C; the sync has written all three rows, the
\* refresh has written A, the matching has run: A counts 0, B 5, C 0.
C24_Witness ==
    /\ RemoteStockOf("A") = [stockCount |-> {4}, itemStock |-> {0}]
    /\ RemoteStockOf("B") = [stockCount |-> {5}, itemStock |-> {}]
    /\ RemoteStockOf("C") = [stockCount |-> {}, itemStock |-> {}]
    /\ hist.upserted = {"A", "B", "C"}
    /\ "A" \in refresh.upserted
    /\ RefreshEnded
    /\ MirrorIds = {"A", "B", "C"}
    /\ mirror["A"].stockCount = 0
    /\ mirror["B"].stockCount = 5
    /\ mirror["C"].stockCount = 0
    /\ Len(matchedItems) = 3
    /\ [k \in 1..3 |-> matchedItems[k].currentStock] = <<0, 5, 0>>

====
